---- MODULE Spec2Model ----
(***************************************************************************)
(* Model of the graph-to-SQL compiler of streaksight                       *)
(* (src-tauri/src/query_builder.rs): generate_sql and its helpers.         *)
(*                                                                         *)
(* One behaviour is one call of generate_sql(node_graph, pagination),      *)
(* made directly or by the command get_query_row_count (src/lib.rs), which *)
(* wraps the compiled text in a counting statement.  A second              *)
(* specification, ConcurrentSpec, runs the calls of two callers            *)
(* interleaved, each caller making several calls one after the other.      *)
(* build_path's loop and the interpretation loop run one iteration per     *)
(* step; the code after the loops (table check, AST assembly, rendering,   *)
(* pagination wrapping) is one step.                                       *)
(*                                                                         *)
(* serde_json values are records tagged by t; strings are TLA+ strings,    *)
(* SQL text is built with \o exactly as the rendered statement reads.      *)
(* Numbers are integers. String literals drawn by the model contain no     *)
(* quote character, identifiers are plain words, so that rendering them    *)
(* is the text itself between quotes (literals) or bare (identifiers).     *)
(***************************************************************************)
EXTENDS Integers, Sequences, FiniteSets, TLC

VARIABLES node_graph, pagination, pc, current_id, path, idx, locals, result,
          command, count_sql, callers, page_args, connector

vars == <<node_graph, pagination, pc, current_id, path, idx, locals, result,
          command, count_sql, callers, page_args, connector>>

---------------------------------------------------------------------------
(* Bounds of the model *)

MaxNodes == 3
MaxEdges == 3
MaxChain == 3
MaxConds == 2
MaxWalk == 5
MaxMetrics == 2
MaxCalls == 2

---------------------------------------------------------------------------
(* serde_json::Value *)

JStr(s) == [t |-> "string", s |-> s]
JNum(n) == [t |-> "number", n |-> n]
JBool(b) == [t |-> "bool", b |-> b]
JNull == [t |-> "null"]
JArr(a) == [t |-> "array", a |-> a]
JObj(o) == [t |-> "object", o |-> o]

Has(d, f) == d.t = "object" /\ f \in DOMAIN d.o

IsStrArr(v) == v.t = "array" /\ \A k \in DOMAIN v.a : v.a[k].t = "string"

(* Result<T, String> and Option<T> *)

Ok(v) == [ok |-> TRUE, v |-> v]
Err(e) == [ok |-> FALSE, err |-> e]
None == [some |-> FALSE]
Some(v) == [some |-> TRUE, v |-> v]

(* Node, Edge, NodeGraph *)

Node(id, ty, data) == [id |-> id, node_type |-> ty, data |-> data]
Edge(s, t) == [source |-> s, target |-> t]
NodeGraph(sel, nodes, edges) ==
    [selected_node_id |-> sel, nodes |-> nodes, edges |-> edges]

(* Iterator::find: the first index among those of the matching elements,   *)
(* 0 when there is none                                                    *)
FirstIndex(matching) ==
    IF matching = {} THEN 0
    ELSE CHOOSE k \in matching : \A j \in matching : k <= j

(* Mutant of Reverse: the path is left in selected-to-root order *)
ReverseForgotten(s) == s

Reverse(s) == [k \in 1..Len(s) |-> s[Len(s) + 1 - k]]

RECURSIVE Join(_, _)
Join(s, sep) ==
    IF Len(s) = 0 THEN ""
    ELSE IF Len(s) = 1 THEN s[1]
    ELSE s[1] \o sep \o Join(Tail(s), sep)

---------------------------------------------------------------------------
(* serde_json::from_value into the node payload structs.  A field marked   *)
(* #[serde(default)] may be absent; a present field must have its type.    *)
(* The serde detail that follows the colon in the error text is left out.  *)

OrderDirections == {"asc", "desc"}
FilterOperators == {"==", "!=", ">", "<", ">=", "<=", "in"}
AggregateFunctions == {"COUNT(*)", "COUNT", "SUM", "AVG", "MAX", "MIN"}

Strings(v) == [k \in DOMAIN v.a |-> v.a[k].s]

TableNodeData(d) ==
    IF Has(d, "table_name") /\ d.o.table_name.t = "string"
    THEN Ok([table_name |-> d.o.table_name.s])
    ELSE Err("Failed to parse table node data")

SelectNodeData(d) ==
    IF d.t = "object" /\ ~Has(d, "columns") THEN Ok([columns |-> <<>>])
    ELSE IF Has(d, "columns") /\ IsStrArr(d.o.columns)
    THEN Ok([columns |-> Strings(d.o.columns)])
    ELSE Err("Failed to parse select node data")

IsOrderByData(v) ==
    /\ Has(v, "column") /\ v.o.column.t = "string"
    /\ Has(v, "direction") /\ v.o.direction.t = "string"
    /\ v.o.direction.s \in OrderDirections

OrderByData(v) == [column |-> v.o.column.s, direction |-> v.o.direction.s]

SortNodeData(d) ==
    IF d.t = "object" /\ ~Has(d, "order") THEN Ok([order |-> <<>>])
    ELSE IF /\ Has(d, "order") /\ d.o.order.t = "array"
            /\ \A k \in DOMAIN d.o.order.a : IsOrderByData(d.o.order.a[k])
    THEN Ok([order |-> [k \in DOMAIN d.o.order.a |-> OrderByData(d.o.order.a[k])]])
    ELSE Err("Failed to parse sort node data")

LimitNodeData(d) ==
    IF d.t = "object" /\ ~Has(d, "limit") THEN Ok([limit |-> None])
    ELSE IF Has(d, "limit") /\ d.o.limit.t = "null" THEN Ok([limit |-> None])
    ELSE IF Has(d, "limit") /\ d.o.limit.t = "number"
    THEN Ok([limit |-> Some(d.o.limit.n)])
    ELSE Err("Failed to parse limit node data")

IsFilterCondition(v) ==
    /\ Has(v, "column") /\ v.o.column.t = "string"
    /\ Has(v, "operator") /\ v.o.operator.t = "string"
    /\ v.o.operator.s \in FilterOperators
    /\ Has(v, "value")
    /\ Has(v, "negate") => v.o.negate.t = "bool"

FilterCondition(v) ==
    [column |-> v.o.column.s, operator |-> v.o.operator.s, value |-> v.o.value,
     negate |-> IF Has(v, "negate") THEN v.o.negate.b ELSE FALSE]

FilterNodeData(d) ==
    IF d.t = "object" /\ ~Has(d, "conditions") THEN Ok([conditions |-> <<>>])
    ELSE IF /\ Has(d, "conditions") /\ d.o.conditions.t = "array"
            /\ \A k \in DOMAIN d.o.conditions.a : IsFilterCondition(d.o.conditions.a[k])
    THEN Ok([conditions |->
                [k \in DOMAIN d.o.conditions.a |-> FilterCondition(d.o.conditions.a[k])]])
    ELSE Err("Failed to parse filter node data")

IsMetric(v) ==
    /\ Has(v, "function") /\ v.o.function.t = "string"
    /\ v.o.function.s \in AggregateFunctions
    /\ Has(v, "column") => v.o.column.t = "string"

Metric(v) ==
    [function |-> v.o.function.s,
     column |-> IF Has(v, "column") THEN v.o.column.s ELSE ""]

AggregationNodeData(d) ==
    IF /\ d.t = "object"
       /\ Has(d, "dimensions") => IsStrArr(d.o.dimensions)
       /\ Has(d, "metrics") =>
             /\ d.o.metrics.t = "array"
             /\ \A k \in DOMAIN d.o.metrics.a : IsMetric(d.o.metrics.a[k])
    THEN Ok([dimensions |-> IF Has(d, "dimensions") THEN Strings(d.o.dimensions) ELSE <<>>,
             metrics |-> IF Has(d, "metrics")
                         THEN [k \in DOMAIN d.o.metrics.a |-> Metric(d.o.metrics.a[k])]
                         ELSE <<>>])
    ELSE Err("Failed to parse aggregation node data")

---------------------------------------------------------------------------
(* generate_sql: the local variables and the arms of the match on          *)
(* node.node_type.  Each arm yields Ok(new locals) or the Err it returns.  *)

InitLocals ==
    [table_name |-> "",
     columns |-> <<>>,
     order_by_list |-> <<>>,
     limit_value |-> None,
     filter_conditions |-> <<>>,
     aggregation_data |-> None,
     has_select_before_aggregation |-> FALSE]

(* Mutant of TableArm: an empty table name keeps the name of an earlier node *)
TableArmKeepsNonEmpty(l, node) ==
    LET table_data == TableNodeData(node.data)
    IN  IF ~table_data.ok THEN table_data
        ELSE Ok([l EXCEPT !.table_name =
                    IF table_data.v.table_name = "" THEN @ ELSE table_data.v.table_name])

TableArm(l, node) ==
    LET table_data == TableNodeData(node.data)
    IN  IF ~table_data.ok THEN table_data
        ELSE Ok([l EXCEPT !.table_name = table_data.v.table_name])

(* Mutant of SelectArm: has_select_before_aggregation is never set *)
SelectArmNoFlag(l, node) ==
    LET select_data == SelectNodeData(node.data)
    IN  IF ~select_data.ok THEN select_data
        ELSE Ok([l EXCEPT !.columns = select_data.v.columns])

SelectArm(l, node) ==
    LET select_data == SelectNodeData(node.data)
    IN  IF ~select_data.ok THEN select_data
        ELSE Ok([l EXCEPT !.columns = select_data.v.columns,
                          !.has_select_before_aggregation =
                              IF ~l.aggregation_data.some THEN TRUE ELSE @])

(* Mutant of SortArm: a sort node also resets the limit *)
SortArmClearsLimit(l, node) ==
    LET sort_data == SortNodeData(node.data)
    IN  IF ~sort_data.ok THEN sort_data
        ELSE Ok([l EXCEPT !.order_by_list = sort_data.v.order, !.limit_value = None])

SortArm(l, node) ==
    LET sort_data == SortNodeData(node.data)
    IN  IF ~sort_data.ok THEN sort_data
        ELSE Ok([l EXCEPT !.order_by_list = sort_data.v.order])

(* Mutant of LimitArm: a missing limit keeps the limit of an earlier node *)
LimitArmKeepsOld(l, node) ==
    LET limit_data == LimitNodeData(node.data)
    IN  IF ~limit_data.ok THEN limit_data
        ELSE Ok([l EXCEPT !.limit_value =
                    IF limit_data.v.limit.some THEN limit_data.v.limit ELSE @])

LimitArm(l, node) ==
    LET limit_data == LimitNodeData(node.data)
    IN  IF ~limit_data.ok THEN limit_data
        ELSE Ok([l EXCEPT !.limit_value = limit_data.v.limit])

FilterArm(l, node) ==
    LET filter_data == FilterNodeData(node.data)
    IN  IF ~filter_data.ok THEN filter_data
        ELSE Ok([l EXCEPT !.filter_conditions = @ \o filter_data.v.conditions])

AggregationAfterSelectMessage ==
    "Cannot use Aggregation after Select node. Please remove the Select node or reorder the nodes."

AggregationArm(l, node) ==
    LET agg_data == AggregationNodeData(node.data)
    IN  IF ~agg_data.ok THEN agg_data
        ELSE IF l.has_select_before_aggregation
        THEN Err(AggregationAfterSelectMessage)
        ELSE Ok([l EXCEPT !.aggregation_data = Some(agg_data.v)])

(* Mutant of UnsupportedArm: a node of unknown kind is skipped *)
UnsupportedArmSkips(l, node) == Ok(l)

UnsupportedArm(l, node) == Err("Unsupported node type: " \o node.node_type)

NodeKinds == {"table", "select", "sort", "limit", "filter", "aggregation"}

MatchNode(l, node) ==
    CASE node.node_type = "table" -> TableArm(l, node)
      [] node.node_type = "select" -> SelectArm(l, node)
      [] node.node_type = "sort" -> SortArm(l, node)
      [] node.node_type = "limit" -> LimitArm(l, node)
      [] node.node_type = "filter" -> FilterArm(l, node)
      [] node.node_type = "aggregation" -> AggregationArm(l, node)
      [] OTHER -> UnsupportedArm(l, node)

---------------------------------------------------------------------------
(* sqlparser::ast::Expr, as far as the compiler builds it, and its Display *)

Identifier(name) == [e |-> "identifier", name |-> name]
SingleQuotedString(s) == [e |-> "string", s |-> s]
Number(s) == [e |-> "number", s |-> s]
Boolean(b) == [e |-> "boolean", b |-> b]
BinaryOp(left, op, right) == [e |-> "binary", left |-> left, op |-> op, right |-> right]
UnaryNot(expr) == [e |-> "not", expr |-> expr]
InList(expr, list, negated) ==
    [e |-> "inlist", expr |-> expr, list |-> list, negated |-> negated]

RECURSIVE ExprToString(_)
ExprToString(x) ==
    CASE x.e = "identifier" -> x.name
      [] x.e = "string" -> "'" \o x.s \o "'"
      [] x.e = "number" -> x.s
      [] x.e = "boolean" -> IF x.b THEN "true" ELSE "false"
      [] x.e = "binary" ->
            ExprToString(x.left) \o " " \o x.op \o " " \o ExprToString(x.right)
      [] x.e = "not" -> "NOT " \o ExprToString(x.expr)
      [] x.e = "inlist" ->
            ExprToString(x.expr) \o (IF x.negated THEN " NOT" ELSE "") \o " IN ("
                \o Join([k \in DOMAIN x.list |-> ExprToString(x.list[k])], ", ") \o ")"

(* Mutant of is_empty_value: an array with one empty element is empty *)
RECURSIVE is_empty_value_any(_)
is_empty_value_any(value) ==
    CASE value.t = "string" -> value.s = ""
      [] value.t = "array" ->
            Len(value.a) = 0 \/ \E k \in DOMAIN value.a : is_empty_value_any(value.a[k])
      [] OTHER -> FALSE

(* is_empty_value *)
RECURSIVE is_empty_value(_)
is_empty_value(value) ==
    CASE value.t = "string" -> value.s = ""
      [] value.t = "array" ->
            Len(value.a) = 0 \/ \A k \in DOMAIN value.a : is_empty_value(value.a[k])
      [] OTHER -> FALSE

(* filter_operator_to_binary_operator: the Display text of the operator,   *)
(* None for "in"                                                           *)
filter_operator_to_binary_operator(op) ==
    CASE op = "==" -> Some("=")
      [] op = "!=" -> Some("<>")
      [] op = ">" -> Some(">")
      [] op = "<" -> Some("<")
      [] op = ">=" -> Some(">=")
      [] op = "<=" -> Some("<=")
      [] op = "in" -> None

(* parse_value; the Debug text of the value after the colon is left out *)
parse_value(value) ==
    CASE value.t = "string" -> Ok(SingleQuotedString(value.s))
      [] value.t = "number" -> Ok(Number(ToString(value.n)))
      [] value.t = "bool" -> Ok(Boolean(value.b))
      [] OTHER -> Err("Unsupported value type")

(* Iterator::collect into Result<Vec<_>, _>: the first Err, or all the Ok values *)
Collect(rs) ==
    IF \E k \in DOMAIN rs : ~rs[k].ok
    THEN rs[FirstIndex({k \in DOMAIN rs : ~rs[k].ok})]
    ELSE Ok([k \in DOMAIN rs |-> rs[k].v])

parse_array_values(value) ==
    IF value.t = "array"
    THEN Collect([k \in DOMAIN value.a |-> parse_value(value.a[k])])
    ELSE Err("Expected array for 'in' operator")

(* Mutant of condition_to_expr: negate flips the operator of == and of an  *)
(* IN list instead of wrapping the condition in NOT                         *)
condition_to_expr_flips(condition) ==
    LET column_expr == Identifier(condition.column)
        binary_op == filter_operator_to_binary_operator(condition.operator)
        base_expr ==
            IF binary_op.some
            THEN LET value == parse_value(condition.value)
                 IN  IF ~value.ok THEN value
                     ELSE Ok(BinaryOp(column_expr,
                                      IF condition.negate /\ binary_op.v = "="
                                      THEN "<>" ELSE binary_op.v,
                                      value.v))
            ELSE LET values == parse_array_values(condition.value)
                 IN  IF ~values.ok THEN values
                     ELSE Ok(InList(column_expr, values.v, condition.negate))
    IN  IF ~base_expr.ok THEN base_expr
        ELSE IF condition.negate /\ condition.operator \notin {"==", "in"}
        THEN Ok(UnaryNot(base_expr.v))
        ELSE base_expr

condition_to_expr(condition) ==
    LET column_expr == Identifier(condition.column)
        binary_op == filter_operator_to_binary_operator(condition.operator)
        base_expr ==
            IF binary_op.some
            THEN LET value == parse_value(condition.value)
                 IN  IF ~value.ok THEN value
                     ELSE Ok(BinaryOp(column_expr, binary_op.v, value.v))
            ELSE LET values == parse_array_values(condition.value)
                 IN  IF ~values.ok THEN values
                     ELSE Ok(InList(column_expr, values.v, FALSE))
    IN  IF ~base_expr.ok THEN base_expr
        ELSE IF condition.negate THEN Ok(UnaryNot(base_expr.v))
        ELSE base_expr

RECURSIVE AndAll(_, _)
AndAll(acc, exprs) ==
    IF Len(exprs) = 0 THEN acc
    ELSE AndAll(BinaryOp(acc, "AND", Head(exprs)), Tail(exprs))

build_where_expr(conditions) ==
    IF Len(conditions) = 0 THEN Err("No filter conditions provided")
    ELSE LET valid_conditions ==
                 SelectSeq(conditions, LAMBDA c : ~is_empty_value(c.value))
         IN  IF Len(valid_conditions) = 0
             THEN Err("No valid filter conditions (all have empty values)")
             ELSE LET exprs == Collect([k \in DOMAIN valid_conditions |->
                                           condition_to_expr(valid_conditions[k])])
                  IN  IF ~exprs.ok THEN exprs
                      ELSE Ok(AndAll(Head(exprs.v), Tail(exprs.v)))

(* aggregate_function_name, create_aggregate_args, create_aggregate_function: *)
(* the Display text of the function call                                      *)
aggregate_function_name(func) == IF func = "COUNT(*)" THEN "COUNT" ELSE func

create_aggregate_args(metric) ==
    IF metric.function = "COUNT(*)" THEN "*" ELSE metric.column

create_aggregate_function(metric) ==
    aggregate_function_name(metric.function) \o "(" \o create_aggregate_args(metric) \o ")"

(* Mutant of build_aggregation_projection: the metrics come first *)
build_aggregation_projection_metrics_first(agg) ==
    [k \in DOMAIN agg.metrics |-> create_aggregate_function(agg.metrics[k])] \o agg.dimensions

build_aggregation_projection(agg) ==
    agg.dimensions \o [k \in DOMAIN agg.metrics |-> create_aggregate_function(agg.metrics[k])]

(* Parser::parse_sql on "SELECT * FROM <table_name>": the table names the  *)
(* model draws are plain identifiers, which parse to one SELECT statement  *)
(* over that table, and "(", which the parser rejects.                      *)
UnparsableTableNames == {"("}

ParseBaseSql(table_name) ==
    IF table_name \in UnparsableTableNames
    THEN Err("Failed to parse base SQL")
    ELSE Ok([projection |-> <<"*">>, from |-> table_name, selection |-> None,
             group_by |-> <<>>, order_by |-> <<>>, limit_clause |-> None])

(* Display of the Query *)
StatementToString(q) ==
    "SELECT " \o Join(q.projection, ", ") \o " FROM " \o q.from
      \o (IF q.selection.some THEN " WHERE " \o ExprToString(q.selection.v) ELSE "")
      \o (IF Len(q.group_by) > 0 THEN " GROUP BY " \o Join(q.group_by, ", ") ELSE "")
      \o (IF Len(q.order_by) > 0
          THEN " ORDER BY " \o Join([k \in DOMAIN q.order_by |->
                   q.order_by[k].column \o (IF q.order_by[k].asc THEN " ASC" ELSE " DESC")], ", ")
          ELSE "")
      \o (IF q.limit_clause.some THEN " LIMIT " \o q.limit_clause.v ELSE "")

---------------------------------------------------------------------------
(* generate_sql after the loop over the path: the table check, the AST     *)
(* assembled on the parsed base statement, its text, the pagination wrap.  *)

(* Mutant of Projection: explicit columns win over the aggregation *)
ProjectionColumnsFirst(l) ==
    IF Len(l.columns) > 0 THEN l.columns
    ELSE IF l.aggregation_data.some
            /\ (Len(l.aggregation_data.v.dimensions) > 0 \/ Len(l.aggregation_data.v.metrics) > 0)
    THEN build_aggregation_projection(l.aggregation_data.v)
    ELSE <<"*">>

(* Mutant of Projection: an empty aggregation block falls back to the columns *)
ProjectionEmptyBlockUsesColumns(l) ==
    IF l.aggregation_data.some
          /\ (Len(l.aggregation_data.v.dimensions) > 0 \/ Len(l.aggregation_data.v.metrics) > 0)
    THEN build_aggregation_projection(l.aggregation_data.v)
    ELSE IF Len(l.columns) > 0 THEN l.columns
    ELSE <<"*">>

Projection(l) ==
    IF l.aggregation_data.some
    THEN IF Len(l.aggregation_data.v.dimensions) > 0 \/ Len(l.aggregation_data.v.metrics) > 0
         THEN build_aggregation_projection(l.aggregation_data.v)
         ELSE <<"*">>
    ELSE IF Len(l.columns) > 0 THEN l.columns
    ELSE <<"*">>

Selection(l) ==
    IF Len(l.filter_conditions) > 0
    THEN LET where_expr == build_where_expr(l.filter_conditions)
         IN  IF where_expr.ok THEN Some(where_expr.v) ELSE None
    ELSE None

GroupBy(l) ==
    IF l.aggregation_data.some /\ Len(l.aggregation_data.v.dimensions) > 0
    THEN l.aggregation_data.v.dimensions
    ELSE <<>>

(* Mutant of OrderByExprs: every key is ascending *)
OrderByExprsAlwaysAsc(l) ==
    [k \in DOMAIN l.order_by_list |->
        [column |-> l.order_by_list[k].column, asc |-> TRUE]]

OrderByExprs(l) ==
    [k \in DOMAIN l.order_by_list |->
        [column |-> l.order_by_list[k].column,
         asc |-> l.order_by_list[k].direction = "asc"]]

LimitClause(l) ==
    IF l.limit_value.some THEN Some(ToString(l.limit_value.v)) ELSE None

(* Mutant of Paginate: the first page is wrapped without an OFFSET *)
PaginateNoOffsetOnFirstPage(inner_sql, pg) ==
    IF pg.some
    THEN "SELECT * FROM (" \o inner_sql \o ") AS subquery LIMIT " \o ToString(pg.v[1])
            \o (IF pg.v[2] = 0 THEN "" ELSE " OFFSET " \o ToString(pg.v[2]))
    ELSE inner_sql

Paginate(inner_sql, pg) ==
    IF pg.some
    THEN "SELECT * FROM (" \o inner_sql \o ") AS subquery LIMIT " \o ToString(pg.v[1])
            \o " OFFSET " \o ToString(pg.v[2])
    ELSE inner_sql

(* Mutant of RenderStatement: the table name is not checked *)
RenderStatementNoTableCheck(l, pg) ==
    LET ast == ParseBaseSql(l.table_name)
    IN  IF ~ast.ok THEN ast
        ELSE LET query == [ast.v EXCEPT !.projection = Projection(l),
                                        !.selection = Selection(l),
                                        !.group_by = GroupBy(l),
                                        !.order_by = OrderByExprs(l),
                                        !.limit_clause = LimitClause(l)]
             IN  Ok(Paginate(StatementToString(query), pg))

RenderStatement(l, pg) ==
    IF l.table_name = "" THEN Err("No table node found in path")
    ELSE LET ast == ParseBaseSql(l.table_name)
         IN  IF ~ast.ok THEN ast
             ELSE LET query == [ast.v EXCEPT !.projection = Projection(l),
                                             !.selection = Selection(l),
                                             !.group_by = GroupBy(l),
                                             !.order_by = OrderByExprs(l),
                                             !.limit_clause = LimitClause(l)]
                  IN  Ok(Paginate(StatementToString(query), pg))

(* The loop over the path and the rest of generate_sql, as one function of *)
(* the path: the Err of the first failing node, or the rendered result.    *)
RECURSIVE InterpretFrom(_, _, _)
InterpretFrom(l, p, k) ==
    IF k > Len(p) THEN Ok(l)
    ELSE LET r == MatchNode(l, p[k])
         IN  IF ~r.ok THEN r ELSE InterpretFrom(r.v, p, k + 1)

Interpret(p) == InterpretFrom(InitLocals, p, 1)

GenerateFromPath(p, pg) ==
    LET r == Interpret(p)
    IN  IF ~r.ok THEN r ELSE RenderStatement(r.v, pg)

---------------------------------------------------------------------------
(* The inputs of a call: node payloads as the front end sends them         *)

EmptyObject == JObj([x \in {} |-> JNull])
JStrings(ss) == JArr([k \in DOMAIN ss |-> JStr(ss[k])])

TableData(name) == JObj([table_name |-> JStr(name)])
SelectData(cols) == JObj([columns |-> JStrings(cols)])
OrderItem(col, dir) == JObj([column |-> JStr(col), direction |-> JStr(dir)])
SortData(order) == JObj([order |-> JArr(order)])
LimitData(v) == JObj([limit |-> v])
Condition(col, op, value, negate) ==
    JObj([column |-> JStr(col), operator |-> JStr(op), value |-> value,
          negate |-> JBool(negate)])
FilterData(conds) == JObj([conditions |-> JArr(conds)])
MetricItem(func, col) == JObj([function |-> JStr(func), column |-> JStr(col)])
AggregationData(dims, metrics) ==
    JObj([dimensions |-> JStrings(dims), metrics |-> JArr(metrics)])

Payload(ty, data) == [node_type |-> ty, data |-> data]

CoreMenu ==
    { Payload("table", TableData("users")),
      Payload("table", TableData("")),
      Payload("select", SelectData(<<"id", "name">>)),
      Payload("select", SelectData(<<>>)),
      Payload("sort", SortData(<<OrderItem("name", "asc")>>)),
      Payload("sort", SortData(<<>>)),
      Payload("limit", LimitData(JNum(10))),
      Payload("limit", LimitData(JNull)),
      Payload("filter", FilterData(<<Condition("price", ">=", JNum(1000), FALSE)>>)),
      Payload("aggregation",
              AggregationData(<<"category">>, <<MetricItem("COUNT(*)", "")>>)),
      Payload("join", EmptyObject),
      Payload("table", EmptyObject) }

ExtraMenu ==
    { Payload("table", TableData("products")),
      Payload("table", TableData("(")),
      Payload("select", EmptyObject),
      Payload("sort", SortData(<<OrderItem("id", "desc"), OrderItem("name", "asc")>>)),
      Payload("sort", SortData(<<JObj([column |-> JStr("name")])>>)),
      Payload("limit", LimitData(JNum(5))),
      Payload("limit", EmptyObject),
      Payload("aggregation", AggregationData(<<>>, <<>>)),
      Payload("aggregation", AggregationData(<<>>, <<MetricItem("SUM", "price")>>)),
      Payload("union", EmptyObject) }

(* A linear chain: node k has id "k", edges k -> k+1, the last node selected *)
ChainGraph(ps) ==
    NodeGraph(ToString(Len(ps)),
              [k \in 1..Len(ps) |-> Node(ToString(k), ps[k].node_type, ps[k].data)],
              [k \in 1..(Len(ps) - 1) |-> Edge(ToString(k), ToString(k + 1))])

SeqsUpTo(S, n) == UNION {[1..k -> S] : k \in 0..n}

CoreChains == SeqsUpTo(CoreMenu, MaxChain) \ {<<>>}

ExtraChains ==
    {<<Payload("table", TableData("users"))>> \o ps :
        ps \in SeqsUpTo(CoreMenu \cup ExtraMenu, MaxChain - 1)}

(* Chains with exactly one node of each of table, select, sort, limit, in  *)
(* every order and with every combination of two payloads per kind         *)
OneOfEachKinds == <<"table", "select", "sort", "limit">>

OneOfEachData ==
    [table |-> {TableData("users"), TableData("products")},
     select |-> {SelectData(<<"id", "name">>), SelectData(<<>>)},
     sort |-> {SortData(<<OrderItem("name", "asc")>>), SortData(<<>>)},
     limit |-> {LimitData(JNum(10)), LimitData(JNull)}]

Permutations4 == {q \in [1..4 -> 1..4] : \A a, b \in 1..4 : q[a] = q[b] => a = b}

OneOfEachChains ==
    {[k \in 1..4 |-> Payload(OneOfEachKinds[q[k]], d[q[k]])] :
        q \in Permutations4,
        d \in [1..4 -> UNION {OneOfEachData[f] : f \in DOMAIN OneOfEachData}] \cap
              {dd \in [1..4 -> UNION {OneOfEachData[f] : f \in DOMAIN OneOfEachData}] :
                  \A k \in 1..4 : dd[k] \in OneOfEachData[OneOfEachKinds[k]]}}

(* Filter chains: table -> filter, the filter's conditions drawn from every *)
(* operator, value shape and negate flag                                    *)
ConditionValues ==
    { JStr("Tokyo"), JStr(""), JNum(1000), JBool(TRUE), JNull, EmptyObject,
      JArr(<<>>), JStrings(<<"Taro", "Jiro">>), JStrings(<<"", "">>),
      JStrings(<<"", "Taro">>), JArr(<<JNull, JStr("Taro")>>),
      JArr(<<JArr(<<>>)>>), JArr(<<JNum(1), JArr(<<>>)>>) }

ConditionMenu ==
    {Condition("city", op, v, n) :
        op \in FilterOperators, v \in ConditionValues, n \in BOOLEAN}

NextConditions ==
    { Condition("price", ">=", JNum(1000), FALSE),
      Condition("name", "==", JStr(""), FALSE),
      Condition("name", "in", JStr("Taro"), FALSE) }

ConditionLists ==
    {<<>>} \cup {<<c>> \o cs : c \in ConditionMenu, cs \in SeqsUpTo(NextConditions, MaxConds - 1)}

FilterChains ==
    {<<Payload("table", TableData("users")), Payload("filter", FilterData(cs))>> :
        cs \in ConditionLists}

(* Chains with two filter nodes: table -> filter -> filter, each filter's   *)
(* list drawn from three distinct conditions, one of them empty-valued      *)
AccumulatedConditions ==
    { Condition("city", "==", JStr("Tokyo"), TRUE),
      Condition("price", ">=", JNum(1000), FALSE),
      Condition("name", "==", JStr(""), FALSE) }

TwoFilterChains ==
    {<<Payload("table", TableData("users")), Payload("filter", FilterData(cs1)),
       Payload("filter", FilterData(cs2))>> :
        cs1, cs2 \in SeqsUpTo(AccumulatedConditions, MaxConds)}

(* Aggregation chains: table -> aggregation, the dimensions in either      *)
(* order, up to MaxMetrics metrics drawn from every function                *)
DimensionLists ==
    {<<>>, <<"category">>, <<"category", "region">>, <<"region", "category">>}

MetricMenu ==
    {MetricItem(f, "price") : f \in AggregateFunctions}
        \cup {MetricItem("COUNT", "id"), JObj([function |-> JStr("COUNT(*)")])}

AggregationChains ==
    {<<Payload("table", TableData("products")),
       Payload("aggregation", AggregationData(dims, metrics))>> :
        dims \in DimensionLists, metrics \in SeqsUpTo(MetricMenu, MaxMetrics)}

(* Graphs with a node off the chain: a linear chain and one more node of   *)
(* an unknown kind, listed before or after the chain's nodes, unconnected  *)
(* or fed by the selected node                                             *)
StrayNode == Node("9", "union", EmptyObject)

StrayChains == SeqsUpTo(CoreMenu, MaxChain - 1) \ {<<>>}

StrayGraph(ps, front, linked) ==
    LET g == ChainGraph(ps)
    IN  NodeGraph(g.selected_node_id,
                  IF front THEN <<StrayNode>> \o g.nodes ELSE Append(g.nodes, StrayNode),
                  IF linked THEN Append(g.edges, Edge(g.selected_node_id, StrayNode.id))
                  ELSE g.edges)

(* Graph shapes: up to MaxNodes nodes with fixed payloads, up to MaxEdges   *)
(* edges between any ids including an id no node has, listed in either      *)
(* order, any id selected                                                   *)
MissingId == "0"

ShapePayloads ==
    << Payload("table", TableData("users")),
       Payload("select", SelectData(<<"id", "name">>)),
       Payload("limit", LimitData(JNum(10))),
       Payload("sort", SortData(<<OrderItem("name", "asc")>>)) >>

ShapeNode(k) ==
    LET pl == ShapePayloads[((k - 1) % Len(ShapePayloads)) + 1]
    IN  Node(ToString(k), pl.node_type, pl.data)

EdgePairs(n) ==
    [j \in 1..(n * (n + 1)) |->
        LET src == (j - 1) \div n
            tgt == ((j - 1) % n) + 1
        IN  Edge(IF src = 0 THEN MissingId ELSE ToString(src), ToString(tgt))]

RECURSIVE IncreasingSeqs(_, _, _)
IncreasingSeqs(k, lo, hi) ==
    IF k = 0 THEN {<<>>}
    ELSE UNION {{<<j>> \o s : s \in IncreasingSeqs(k - 1, j + 1, hi)} : j \in lo..hi}

EdgeLists(n) ==
    LET pairs == EdgePairs(n)
        picks == UNION {IncreasingSeqs(k, 1, Len(pairs)) : k \in 0..MaxEdges}
        lists == {[k \in DOMAIN pk |-> pairs[pk[k]]] : pk \in picks}
    IN  lists \cup {Reverse(es) : es \in lists}

ShapeGraph(n, sel, es) == NodeGraph(sel, [k \in 1..n |-> ShapeNode(k)], es)

ShapeIds(n) == {ToString(k) : k \in 1..n} \cup {MissingId}

Paginations == {None, Some(<<100, 0>>), Some(<<2, 4>>)}

Chains ==
    CoreChains \cup ExtraChains \cup OneOfEachChains \cup FilterChains \cup TwoFilterChains
        \cup AggregationChains

---------------------------------------------------------------------------
(* run_query (src/lib.rs): the page window handed to generate_sql.  page   *)
(* and page_size are Option<i32>; the offset is computed in i32 and then   *)
(* widened to i64.  An i32 multiplication that overflows panics in a build *)
(* with overflow checks and wraps around in a build without them.          *)

I32Max == 2147483647
I32Min == (0 - I32Max) - 1

wrapping_add(a, b) ==
    IF a >= 0 /\ b > I32Max - a THEN (a - I32Max - 1) + (b - I32Max - 1)
    ELSE IF a < 0 /\ b < I32Min - a THEN (a + I32Max + 1) + (b + I32Max + 1)
    ELSE a + b

(* a * b in i32 with wrap-around, for b >= 0, by doubling *)
RECURSIVE wrapping_mul(_, _)
wrapping_mul(a, b) ==
    IF b = 0 THEN 0
    ELSE LET half == wrapping_mul(a, b \div 2)
             double == wrapping_add(half, half)
         IN  IF b % 2 = 1 THEN wrapping_add(double, a) ELSE double

(* a * b leaves the range of i32, for a, b >= 0 *)
MulOverflows(a, b) == a > 0 /\ b > I32Max \div a

NoPageArgs == [page |-> None, page_size |-> None]

unwrap_or(opt, default) == IF opt.some THEN opt.v ELSE default

Pages == {None, Some(1), Some(2), Some(3), Some(65537), Some(I32Max)}
PageSizes == {None, Some(0), Some(10), Some(32768), Some(65536), Some(1073741824),
              Some(I32Max)}

RunQueryChains ==
    { <<Payload("table", TableData("users"))>>,
      <<Payload("table", TableData("users")), Payload("limit", LimitData(JNum(10)))>>,
      <<Payload("select", SelectData(<<"id", "name">>))>> }

---------------------------------------------------------------------------
(* Callers of generate_sql.  Each call has its own frame: the borrowed      *)
(* graph, the pagination argument, and the function's local variables.      *)

Callers == {"a", "b"}

ConcurrentChains ==
    { <<Payload("table", TableData("users"))>>,
      <<Payload("table", TableData("products")),
        Payload("select", SelectData(<<"id", "name">>))>>,
      <<Payload("table", TableData("users")),
        Payload("filter", FilterData(<<Condition("price", ">=", JNum(1000), FALSE)>>))>>,
      <<Payload("table", TableData("users")),
        Payload("sort", SortData(<<OrderItem("name", "asc")>>)),
        Payload("limit", LimitData(JNum(10)))>>,
      <<Payload("select", SelectData(<<"id", "name">>))>>,
      <<Payload("table", TableData("products")),
        Payload("aggregation",
                AggregationData(<<"category">>, <<MetricItem("COUNT(*)", "")>>))>> }

ConcurrentGraphs ==
    {ChainGraph(ps) : ps \in ConcurrentChains}
        \cup {NodeGraph(MissingId, <<Node("1", "table", TableData("users"))>>, <<>>)}

ConcurrentInputs ==
    {[graph |-> g, pagination |-> pg] :
        g \in ConcurrentGraphs, pg \in {None, Some(<<2, 4>>)}}

IdleCaller ==
    [pc |-> "idle", calls_made |-> 0, input |-> None,
     node_graph |-> NodeGraph("", <<>>, <<>>), pagination |-> None,
     path |-> <<>>, idx |-> 0, locals |-> InitLocals, result |-> None]

(* Mutant of FreshLocals: the locals of the caller's previous call survive *)
LocalsKept(previous) == previous

(* generate_sql, lines 139-145: every call declares its locals anew *)
FreshLocals(previous) == InitLocals

---------------------------------------------------------------------------
(* The connector commands config, discovery and sync (lib.rs).  Each call  *)
(* runs its body on a blocking thread of its own, and all calls share the  *)
(* one temp_dir of the machine.  Paths are sequences of components.        *)

(* mod connector_type, lines 106-109 *)
LOCAL_FILE_CSV == "LocalFileCSV"
LOCAL_FILE_JSON == "LocalFileJSON"

(* the text of the io error of a missing file or directory *)
NotFoundText == "No such file or directory (os error 2)"

(* Path::ends_with: the last component of the path is the given one *)
ends_with(dir, component) == Len(dir) > 0 /\ dir[Len(dir)] = component

(* Mutant of resolve_connector_path: the wildcard arm falls back to the CSV *)
(* connector instead of returning the error                                 *)
resolve_connector_path_csv_fallback(current_dir, ty) ==
    IF ~current_dir.some THEN Err(NotFoundText)
    ELSE LET connector_file ==
                 IF ty = LOCAL_FILE_JSON THEN "LocalFileJSONConnector.js"
                 ELSE "LocalFileCSVConnector.js"
         IN  Ok(IF ends_with(current_dir.v, "src-tauri")
                THEN current_dir.v \o <<"src", connector_file>>
                ELSE current_dir.v \o <<"src-tauri", "src", connector_file>>)

(* resolve_connector_path, lines 111-127; current_dir is the outcome of    *)
(* std::env::current_dir(), None when it fails                             *)
resolve_connector_path(current_dir, ty) ==
    IF ~current_dir.some THEN Err(NotFoundText)
    ELSE IF ty \notin {LOCAL_FILE_CSV, LOCAL_FILE_JSON}
    THEN Err("Unknown connector type")
    ELSE LET connector_file ==
                 IF ty = LOCAL_FILE_CSV THEN "LocalFileCSVConnector.js"
                 ELSE "LocalFileJSONConnector.js"
         IN  Ok(IF ends_with(current_dir.v, "src-tauri")
                THEN current_dir.v \o <<"src", connector_file>>
                ELSE current_dir.v \o <<"src-tauri", "src", connector_file>>)

(* the text of an absolute path, components joined by a slash *)
RECURSIVE PathText(_)
PathText(p) ==
    IF p = <<>> THEN "" ELSE "/" \o Head(p) \o PathText(Tail(p))

(* the fixed names the commands give their temporary files in temp_dir *)
TempJsPath(cmd) ==
    CASE cmd = "config" -> "streaksight_config_temp.js"
      [] cmd = "discovery" -> "streaksight_discovery_temp.js"
      [] cmd = "sync" -> "streaksight_sync_temp.js"

ResultFilePath(cmd) ==
    CASE cmd = "config" -> Some("streaksight_config_result.json")
      [] cmd = "discovery" -> Some("streaksight_discovery_result.json")
      [] cmd = "sync" -> None

TempFiles ==
    {"streaksight_config_temp.js", "streaksight_config_result.json",
     "streaksight_discovery_temp.js", "streaksight_discovery_result.json",
     "streaksight_sync_temp.js"}

(* the arguments of sync that the inputs keep fixed *)
SyncName == "events"
SyncSchema == "{}"

(* the script a call writes: the arguments of its format!, by function.   *)
(* The configs of the inputs hold no backslash and no backtick, which the  *)
(* replace calls of lines 289 and 354-356 would escape.                    *)
TempJs(call) ==
    [function |-> call.command,
     import |-> PathText(call.connector_path.v),
     config |-> IF call.command = "config" THEN None ELSE Some(call.config),
     schema |-> IF call.command = "sync" THEN Some(SyncSchema) ELSE None,
     name |-> IF call.command = "sync" THEN Some(SyncName) ELSE None,
     result_file |-> ResultFilePath(call.command)]

(* what a script hands to streaksight.writeFile: the value the imported   *)
(* connector function returns for the arguments of the script             *)
ResultJson(module) ==
    [function |-> module.function, connector |-> module.import,
     config |-> module.config]

ConnectorCommands == {"config", "discovery", "sync"}

ConnectorTypes == {LOCAL_FILE_CSV, LOCAL_FILE_JSON, "UnknownType"}

ConnectorConfigs == {"{\"path\":\"a.csv\"}", "{\"path\":\"b.csv\"}"}

CurrentDirs == {Some(<<"app", "src-tauri">>), Some(<<"app">>), None}

(* the arguments of one call *)
ConnectorCallInputs ==
    {[command |-> c, ty |-> ty, config |-> ""] :
        c \in {"resolve_connector_path", "config"}, ty \in ConnectorTypes}
    \cup {[command |-> c, ty |-> ty, config |-> cfg] :
            c \in {"discovery", "sync"}, ty \in ConnectorTypes,
            cfg \in ConnectorConfigs}

ConnectorCall(input) ==
    [pc |-> "start", command |-> input.command, ty |-> input.ty,
     config |-> input.config, connector_path |-> None, module |-> None,
     json_str |-> None, returned |-> None, wrote |-> FALSE, runtime |-> FALSE]

IdleConnector ==
    [current_dir |-> None, connector_exists |-> FALSE,
     files |-> [f \in TempFiles |-> None],
     calls |-> [t \in Callers |->
                  ConnectorCall([command |-> "", ty |-> "", config |-> ""])]]

---------------------------------------------------------------------------
(* The call generate_sql(node_graph, pagination) *)

Init ==
    /\ \/ \E ps \in Chains, pg \in Paginations :
             /\ node_graph = ChainGraph(ps) /\ pagination = pg
             /\ command = "generate_sql"
       \/ \E ps \in ExtraChains :
             /\ node_graph = ChainGraph(ps) /\ pagination = None
             /\ command = "get_query_row_count"
       \/ \E ps \in StrayChains, front \in BOOLEAN, linked \in BOOLEAN :
             /\ node_graph = StrayGraph(ps, front, linked) /\ pagination = None
             /\ command = "generate_sql"
       \/ \E n \in 1..MaxNodes :
             \E sel \in ShapeIds(n), es \in EdgeLists(n) :
                /\ node_graph = ShapeGraph(n, sel, es) /\ pagination = None
                /\ command = "generate_sql"
    /\ count_sql = None
    /\ callers = [t \in Callers |-> IdleCaller]
    /\ page_args = NoPageArgs
    /\ connector = IdleConnector
    /\ pc = "build_path"
    /\ current_id = node_graph.selected_node_id
    /\ path = <<>>
    /\ idx = 0
    /\ locals = InitLocals
    /\ result = None

(* build_path: node_graph.nodes.iter().find(|n| n.id == current_id) *)
FindNode(g, id) == FirstIndex({k \in DOMAIN g.nodes : g.nodes[k].id = id})

(* build_path: node_graph.edges.iter().find(|e| e.target == current_id) *)
FindEdge(g, id) == FirstIndex({k \in DOMAIN g.edges : g.edges[k].target = id})

Return(r) ==
    /\ result' = Some(r)
    /\ pc' = "done"

(* Mutant of BuildPathNodeNotFound: an unknown id ends the walk like a root *)
BuildPathNodeNotFoundBreaks ==
    /\ pc = "build_path"
    /\ FindNode(node_graph, current_id) = 0
    /\ path' = Reverse(path)
    /\ pc' = "interpret"
    /\ idx' = 1
    /\ UNCHANGED <<node_graph, pagination, command, count_sql, callers, page_args, connector, current_id, locals, result>>

(* build_path, loop body: the current id names no node *)
BuildPathNodeNotFound ==
    /\ pc = "build_path"
    /\ FindNode(node_graph, current_id) = 0
    /\ Return(Err("Node not found: " \o current_id))
    /\ UNCHANGED <<node_graph, pagination, command, count_sql, callers, page_args, connector, current_id, path, idx, locals>>

(* build_path, loop body: push the node and follow its incoming edge.      *)
(* The walk is followed for MaxWalk nodes, more than any acyclic chain of  *)
(* the model has; on a cycle the code goes on pushing without end.         *)
BuildPathFollowEdge ==
    /\ pc = "build_path"
    /\ Len(path) < MaxWalk
    /\ FindNode(node_graph, current_id) # 0
    /\ FindEdge(node_graph, current_id) # 0
    /\ path' = Append(path, node_graph.nodes[FindNode(node_graph, current_id)])
    /\ current_id' = node_graph.edges[FindEdge(node_graph, current_id)].source
    /\ UNCHANGED <<node_graph, pagination, command, count_sql, callers, page_args, connector, pc, idx, locals, result>>

(* build_path, loop body: push the node, no incoming edge: break, reverse *)
BuildPathBreak ==
    /\ pc = "build_path"
    /\ FindNode(node_graph, current_id) # 0
    /\ FindEdge(node_graph, current_id) = 0
    /\ path' = Reverse(Append(path, node_graph.nodes[FindNode(node_graph, current_id)]))
    /\ pc' = "interpret"
    /\ idx' = 1
    /\ UNCHANGED <<node_graph, pagination, command, count_sql, callers, page_args, connector, current_id, locals, result>>

(* generate_sql, `for node in &path`: the loop is at a node of type ty *)
AtNode(ty) ==
    /\ pc = "interpret"
    /\ idx <= Len(path)
    /\ path[idx].node_type = ty

(* generate_sql, one iteration: the arm's `?` or return Err leaves the     *)
(* function, otherwise the locals are updated and the loop goes on         *)
Iterate(r) ==
    /\ IF r.ok
       THEN /\ locals' = r.v
            /\ idx' = idx + 1
            /\ UNCHANGED <<pc, result>>
       ELSE /\ Return(r)
            /\ UNCHANGED <<locals, idx>>
    /\ UNCHANGED <<node_graph, pagination, command, count_sql, callers, page_args, connector, current_id, path>>

VisitTable ==
    /\ AtNode("table")
    /\ Iterate(MatchNode(locals, path[idx]))

VisitSelect ==
    /\ AtNode("select")
    /\ Iterate(MatchNode(locals, path[idx]))

VisitSort ==
    /\ AtNode("sort")
    /\ Iterate(MatchNode(locals, path[idx]))

VisitLimit ==
    /\ AtNode("limit")
    /\ Iterate(MatchNode(locals, path[idx]))

VisitFilter ==
    /\ AtNode("filter")
    /\ Iterate(MatchNode(locals, path[idx]))

VisitAggregation ==
    /\ AtNode("aggregation")
    /\ Iterate(MatchNode(locals, path[idx]))

VisitUnsupported ==
    /\ pc = "interpret"
    /\ idx <= Len(path)
    /\ path[idx].node_type \notin NodeKinds
    /\ Iterate(MatchNode(locals, path[idx]))

(* generate_sql after the loop *)
Render ==
    /\ pc = "interpret"
    /\ idx > Len(path)
    /\ Return(RenderStatement(locals, pagination))
    /\ UNCHANGED <<node_graph, pagination, command, count_sql, callers, page_args, connector, current_id, path, idx, locals>>

(* Mutant of CountSql: the subquery alias is left out *)
CountSqlNoAlias(sql) == "SELECT COUNT(*) FROM (" \o sql \o ")"

(* get_query_row_count: the format! of count_sql around the compiled sql *)
CountSql(sql) == "SELECT COUNT(*) FROM (" \o sql \o ") AS subquery"

(* get_query_row_count: generate_sql(&graph, None)? returned Err, which the *)
(* command returns                                                          *)
GetQueryRowCountError ==
    /\ command = "get_query_row_count"
    /\ pc = "done"
    /\ ~result.v.ok
    /\ pc' = "returned"
    /\ UNCHANGED <<node_graph, pagination, command, count_sql, callers, page_args, connector, current_id, path, idx,
                   locals, result>>

(* get_query_row_count: generate_sql returned Ok(sql); the counting         *)
(* statement is built and handed to the connection's query_row              *)
GetQueryRowCountQuery ==
    /\ command = "get_query_row_count"
    /\ pc = "done"
    /\ result.v.ok
    /\ count_sql' = Some(CountSql(result.v.v))
    /\ pc' = "query_row"
    /\ UNCHANGED <<node_graph, pagination, command, callers, page_args, connector, current_id, path, idx,
                   locals, result>>

Next ==
    \/ BuildPathNodeNotFound
    \/ BuildPathFollowEdge
    \/ BuildPathBreak
    \/ VisitTable
    \/ VisitSelect
    \/ VisitSort
    \/ VisitLimit
    \/ VisitFilter
    \/ VisitAggregation
    \/ VisitUnsupported
    \/ Render
    \/ GetQueryRowCountError
    \/ GetQueryRowCountQuery

Spec == Init /\ [][Next]_vars

---------------------------------------------------------------------------
(* Interleaved calls: every step is one step of one caller's current call  *)

(* build_path as a function of the graph, for graphs whose walk ends *)
RECURSIVE build_path_from(_, _, _)
build_path_from(g, id, acc) ==
    IF FindNode(g, id) = 0 THEN Err("Node not found: " \o id)
    ELSE IF FindEdge(g, id) = 0
    THEN Ok(Reverse(Append(acc, g.nodes[FindNode(g, id)])))
    ELSE build_path_from(g, g.edges[FindEdge(g, id)].source,
                         Append(acc, g.nodes[FindNode(g, id)]))

build_path(g) == build_path_from(g, g.selected_node_id, <<>>)

ConcurrentInit ==
    /\ callers = [t \in Callers |-> IdleCaller]
    /\ page_args = NoPageArgs
    /\ connector = IdleConnector
    /\ node_graph = NodeGraph("", <<>>, <<>>)
    /\ pagination = None
    /\ pc = "idle"
    /\ current_id = ""
    /\ path = <<>>
    /\ idx = 0
    /\ locals = InitLocals
    /\ result = None
    /\ command = "generate_sql"
    /\ count_sql = None

OnlyCaller(t, frame) ==
    /\ callers' = [callers EXCEPT ![t] = frame]
    /\ UNCHANGED <<node_graph, pagination, pc, current_id, path, idx, locals, result,
                   command, count_sql, page_args, connector>>

(* a caller invokes generate_sql(&graph, pagination) *)
CallStart ==
    \E t \in Callers, input \in ConcurrentInputs :
       /\ callers[t].pc \in {"idle", "done"}
       /\ callers[t].calls_made < MaxCalls
       /\ OnlyCaller(t, [pc |-> "build_path",
                         calls_made |-> callers[t].calls_made + 1,
                         input |-> Some(input),
                         node_graph |-> input.graph,
                         pagination |-> input.pagination,
                         path |-> <<>>, idx |-> 0,
                         locals |-> FreshLocals(callers[t].locals),
                         result |-> None])

(* line 137: let path = build_path(node_graph)?; *)
CallBuildPath ==
    \E t \in Callers :
       /\ callers[t].pc = "build_path"
       /\ LET r == build_path(callers[t].node_graph)
          IN  OnlyCaller(t, IF r.ok
                            THEN [callers[t] EXCEPT !.path = r.v, !.idx = 1,
                                                    !.pc = "interpret"]
                            ELSE [callers[t] EXCEPT !.result = Some(r), !.pc = "done"])

(* one iteration of the loop over the path *)
CallVisitNode ==
    \E t \in Callers :
       /\ callers[t].pc = "interpret"
       /\ callers[t].idx <= Len(callers[t].path)
       /\ LET r == MatchNode(callers[t].locals, callers[t].path[callers[t].idx])
          IN  OnlyCaller(t, IF r.ok
                            THEN [callers[t] EXCEPT !.locals = r.v, !.idx = @ + 1]
                            ELSE [callers[t] EXCEPT !.result = Some(r), !.pc = "done"])

(* the code after the loop *)
CallRender ==
    \E t \in Callers :
       /\ callers[t].pc = "interpret"
       /\ callers[t].idx > Len(callers[t].path)
       /\ OnlyCaller(t, [callers[t] EXCEPT
                            !.result = Some(RenderStatement(callers[t].locals,
                                                            callers[t].pagination)),
                            !.pc = "done"])

ConcurrentNext ==
    \/ CallStart
    \/ CallBuildPath
    \/ CallVisitNode
    \/ CallRender

ConcurrentSpec == ConcurrentInit /\ [][ConcurrentNext]_vars

---------------------------------------------------------------------------
(* The command run_query(node_graph, page, page_size) up to the compiled   *)
(* statement it hands to the database                                      *)

RunQueryInit ==
    /\ \E ps \in RunQueryChains, page \in Pages, page_size \in PageSizes :
          /\ node_graph = ChainGraph(ps)
          /\ page_args = [page |-> page, page_size |-> page_size]
    /\ command = "run_query"
    /\ pc = "run_query"
    /\ pagination = None
    /\ current_id = node_graph.selected_node_id
    /\ path = <<>>
    /\ idx = 0
    /\ locals = InitLocals
    /\ result = None
    /\ count_sql = None
    /\ callers = [t \in Callers |-> IdleCaller]
    /\ connector = IdleConnector

RunQueryUnchanged ==
    UNCHANGED <<node_graph, command, current_id, path, idx, locals, count_sql, callers,
                page_args, connector>>

(* lines 486-489: page, page_size, limit, offset; the product stays in i32 *)
(* or the build wraps it around                                            *)
RunQueryWindow ==
    /\ pc = "run_query"
    /\ LET page == unwrap_or(page_args.page, 1)
           page_size == unwrap_or(page_args.page_size, 100)
           limit == page_size
           offset == wrapping_mul(page - 1, page_size)
       IN  pagination' = Some(<<limit, offset>>)
    /\ pc' = "generate_sql"
    /\ UNCHANGED result
    /\ RunQueryUnchanged

(* line 489 in a build with overflow checks: the multiplication panics *)
RunQueryOverflowPanics ==
    /\ pc = "run_query"
    /\ MulOverflows(unwrap_or(page_args.page, 1) - 1, unwrap_or(page_args.page_size, 100))
    /\ pc' = "panicked"
    /\ UNCHANGED <<pagination, result>>
    /\ RunQueryUnchanged

(* line 491: generate_sql(&graph, Some((limit, offset)))?, whole call *)
RunQueryGenerateSql ==
    /\ pc = "generate_sql"
    /\ result' = Some(IF build_path(node_graph).ok
                      THEN GenerateFromPath(build_path(node_graph).v, pagination)
                      ELSE build_path(node_graph))
    /\ pc' = "done"
    /\ UNCHANGED pagination
    /\ RunQueryUnchanged

RunQueryNext ==
    \/ RunQueryWindow
    \/ RunQueryOverflowPanics
    \/ RunQueryGenerateSql

RunQuerySpec == RunQueryInit /\ [][RunQueryNext]_vars

---------------------------------------------------------------------------
(* Two calls of the connector commands, each on its own blocking thread.   *)
(* A step of a call is one access to the shared temp_dir together with the *)
(* thread-local work that follows it.                                      *)

ConnectorInit ==
    /\ \E dir \in CurrentDirs, exists \in BOOLEAN,
          a \in ConnectorCallInputs, b \in ConnectorCallInputs :
          connector = [current_dir |-> dir, connector_exists |-> exists,
                       files |-> [f \in TempFiles |-> None],
                       calls |-> [t \in Callers |->
                                    ConnectorCall(IF t = "a" THEN a ELSE b)]]
    /\ command = "connector"
    /\ callers = [t \in Callers |-> IdleCaller]
    /\ page_args = NoPageArgs
    /\ node_graph = NodeGraph("", <<>>, <<>>)
    /\ pagination = None
    /\ pc = "idle"
    /\ current_id = ""
    /\ path = <<>>
    /\ idx = 0
    /\ locals = InitLocals
    /\ result = None
    /\ count_sql = None

ConnectorUnchanged ==
    UNCHANGED <<node_graph, pagination, pc, current_id, path, idx, locals, result,
                command, count_sql, callers, page_args>>

(* the call of t becomes the given frame, the files the given files *)
ConnectorStep(t, frame, files) ==
    /\ connector' = [connector EXCEPT !.calls[t] = frame, !.files = files]
    /\ ConnectorUnchanged

Returns(call, value) == [call EXCEPT !.pc = "done", !.returned = Some(value)]

(* a direct call of resolve_connector_path(ty), lines 111-127 *)
ResolveConnectorPath(t) ==
    LET call == connector.calls[t]
    IN  /\ call.pc = "start"
        /\ call.command = "resolve_connector_path"
        /\ ConnectorStep(t,
              Returns(call, resolve_connector_path(connector.current_dir, call.ty)),
              connector.files)

(* config 205-214, discovery 263-277, sync 330-344: the test of the type,  *)
(* current_dir, resolve_connector_path and the test that the connector     *)
(* file exists                                                             *)
ConnectorPrepare(t) ==
    LET call == connector.calls[t]
        resolved == resolve_connector_path(connector.current_dir, call.ty)
    IN  /\ call.pc = "start"
        /\ call.command \in ConnectorCommands
        /\ ConnectorStep(t,
              IF call.ty # LOCAL_FILE_CSV /\ call.ty # LOCAL_FILE_JSON
              THEN Returns(call, Err("Unknown connector type"))
              ELSE IF call.command # "config" /\ ~connector.current_dir.some
              THEN Returns(call, Err(NotFoundText))
              ELSE IF ~resolved.ok
              THEN Returns(call, resolved)
              ELSE IF call.command # "config" /\ ~connector.connector_exists
              THEN Returns(call, Err("Connector file not found: \""
                                     \o PathText(resolved.v) \o "\""))
              ELSE [call EXCEPT !.pc = "write", !.connector_path = Some(resolved.v)],
              connector.files)

(* config 227-245, discovery 293-307, sync 359-373: std::fs::write of the  *)
(* script, then the tokio runtime and the JsRuntime of the call            *)
ConnectorWriteScript(t) ==
    LET call == connector.calls[t]
    IN  /\ call.pc = "write"
        /\ ConnectorStep(t,
              [call EXCEPT !.pc = "load", !.wrote = TRUE, !.runtime = TRUE],
              [connector.files EXCEPT ![TempJsPath(call.command)] = Some(TempJs(call))])

(* execute_deno_module 189-192: load_main_es_module reads the file at      *)
(* temp_js_path                                                            *)
ConnectorLoadModule(t) ==
    LET call == connector.calls[t]
        file == connector.files[TempJsPath(call.command)]
    IN  /\ call.pc = "load"
        /\ ConnectorStep(t,
              IF file.some
              THEN [call EXCEPT !.pc = "evaluate", !.module = file]
              ELSE Returns(call, Err("Failed to load module: " \o NotFoundText)),
              connector.files)

(* execute_deno_module 193-199: the loaded script runs; the scripts of     *)
(* config and discovery write their result file                            *)
ConnectorEvaluate(t) ==
    LET call == connector.calls[t]
        module == call.module.v
    IN  /\ call.pc = "evaluate"
        /\ ConnectorStep(t,
              [call EXCEPT !.pc = IF call.command = "sync" THEN "remove_js" ELSE "read"],
              IF module.result_file.some
              THEN [connector.files EXCEPT
                       ![module.result_file.v] = Some(ResultJson(module))]
              ELSE connector.files)

(* config 249-250, discovery 316-317: read_to_string of the result file *)
ConnectorReadResult(t) ==
    LET call == connector.calls[t]
        file == connector.files[ResultFilePath(call.command).v]
    IN  /\ call.pc = "read"
        /\ ConnectorStep(t,
              IF file.some
              THEN [call EXCEPT !.pc = "remove_js", !.json_str = file]
              ELSE Returns(call, Err("Failed to read result file: " \o NotFoundText)),
              connector.files)

(* config 252, discovery 319, sync 382-384: remove_file of the script; sync *)
(* then returns                                                            *)
ConnectorRemoveScript(t) ==
    LET call == connector.calls[t]
    IN  /\ call.pc = "remove_js"
        /\ ConnectorStep(t,
              IF call.command = "sync"
              THEN Returns(call, Ok("Sync completed successfully"))
              ELSE [call EXCEPT !.pc = "remove_result"],
              [connector.files EXCEPT ![TempJsPath(call.command)] = None])

(* config 253-255, discovery 320-322: remove_file of the result file and   *)
(* Ok(json_str)                                                            *)
ConnectorRemoveResult(t) ==
    LET call == connector.calls[t]
    IN  /\ call.pc = "remove_result"
        /\ ConnectorStep(t,
              Returns(call, Ok(call.json_str.v)),
              [connector.files EXCEPT ![ResultFilePath(call.command).v] = None])

ConnectorNext ==
    \E t \in Callers :
       \/ ResolveConnectorPath(t)
       \/ ConnectorPrepare(t)
       \/ ConnectorWriteScript(t)
       \/ ConnectorLoadModule(t)
       \/ ConnectorEvaluate(t)
       \/ ConnectorReadResult(t)
       \/ ConnectorRemoveScript(t)
       \/ ConnectorRemoveResult(t)

ConnectorSpec == ConnectorInit /\ [][ConnectorNext]_vars

---------------------------------------------------------------------------
(* Properties *)

Done == pc = "done"

(* build_path returned Ok: the interpretation loop has been entered *)
Resolved == idx > 0

(* the interpretation loop ran over the whole path without returning *)
LoopCompleted == Resolved /\ idx > Len(path)

NodeIds(g) == {g.nodes[k].id : k \in DOMAIN g.nodes}
NodeById(g, id) == g.nodes[CHOOSE k \in DOMAIN g.nodes : g.nodes[k].id = id]
IncomingEdges(g, id) == {k \in DOMAIN g.edges : g.edges[k].target = id}
SourceOf(g, id) == g.edges[CHOOSE k \in IncomingEdges(g, id) : TRUE].source

AtMostOneIncoming(g) == \A id \in NodeIds(g) : Cardinality(IncomingEdges(g, id)) <= 1

(* The ids met walking back from id over at most n edges, root first *)
RECURSIVE ChainIds(_, _, _)
ChainIds(g, id, n) ==
    IF n > 0 /\ id \in NodeIds(g) /\ IncomingEdges(g, id) # {}
    THEN Append(ChainIds(g, SourceOf(g, id), n - 1), id)
    ELSE <<id>>

(* The walk from the selected node ends at a node without incoming edge,   *)
(* meets only ids of nodes and meets none twice                            *)
WellFormedGraph(g) ==
    LET ids == ChainIds(g, g.selected_node_id, Len(g.nodes) + 1)
    IN  /\ AtMostOneIncoming(g)
        /\ \A k \in DOMAIN ids : ids[k] \in NodeIds(g)
        /\ \A a, b \in DOMAIN ids : ids[a] = ids[b] => a = b
        /\ IncomingEdges(g, ids[1]) = {}

ExpectedChain(g) ==
    LET ids == ChainIds(g, g.selected_node_id, Len(g.nodes) + 1)
    IN  [k \in DOMAIN ids |-> NodeById(g, ids[k])]

(* C1: in a graph where every node has at most one incoming edge and the   *)
(* walk back from the selected node is acyclic, build_path returns the     *)
(* nodes of that walk, root first and the selected node last, and the      *)
(* result of generate_sql is the one computed from those nodes alone:      *)
(* nodes off the chain, downstream ones included, do not change it.        *)
C1_PathIsChainRootFirst ==
    WellFormedGraph(node_graph) =>
        /\ pc # "build_path" => path = ExpectedChain(node_graph)
        /\ Done => result = Some(GenerateFromPath(ExpectedChain(node_graph), pagination))

C1_Witness ==
    /\ Done
    /\ WellFormedGraph(node_graph)
    /\ Len(path) = 2
    /\ Len(node_graph.nodes) = 3
    /\ path[2].id = node_graph.selected_node_id
    /\ \E k \in DOMAIN node_graph.edges :
          node_graph.edges[k].source = node_graph.selected_node_id
    /\ result.v.ok

(* C2: when the selected id, or the source id of an edge just followed,    *)
(* is the id of no node, generate_sql returns Err("Node not found: <id>")  *)
(* and no SQL.                                                             *)
C2_NodeNotFound ==
    (pc # "build_path" /\ current_id \notin NodeIds(node_graph)) =>
        /\ Done
        /\ result = Some(Err("Node not found: " \o current_id))

C2_Witness ==
    /\ Done
    /\ current_id \notin NodeIds(node_graph)
    /\ Len(path) >= 1
    /\ current_id # node_graph.selected_node_id
    /\ result = Some(Err("Node not found: " \o MissingId))

(* C3: the backward walk visits at most as many nodes as the graph has     *)
(* (a cyclic chain is cut off there with a MalformedGraph error).          *)
C3_WalkBoundedByNodeCount ==
    Len(path) <= Len(node_graph.nodes)

(* The last node of kind ty among the first n nodes of p, 0 when none *)
LastOfKind(p, ty, n) ==
    IF \E k \in 1..n : p[k].node_type = ty
    THEN CHOOSE k \in 1..n :
            p[k].node_type = ty /\ \A j \in (k + 1)..n : p[j].node_type # ty
    ELSE 0

LastTableName(p, n) ==
    LET k == LastOfKind(p, "table", n)
    IN  IF k = 0 THEN "" ELSE TableNodeData(p[k].data).v.table_name

LastColumns(p, n) ==
    LET k == LastOfKind(p, "select", n)
    IN  IF k = 0 THEN <<>> ELSE SelectNodeData(p[k].data).v.columns

LastOrder(p, n) ==
    LET k == LastOfKind(p, "sort", n)
    IN  IF k = 0 THEN <<>> ELSE SortNodeData(p[k].data).v.order

LastLimit(p, n) ==
    LET k == LastOfKind(p, "limit", n)
    IN  IF k = 0 THEN None ELSE LimitNodeData(p[k].data).v.limit

(* SELECT text of a statement without predicate and aggregation *)
PlainSql(table, cols, order, limit) ==
    "SELECT " \o (IF cols = <<>> THEN "*" ELSE Join(cols, ", ")) \o " FROM " \o table
      \o (IF order = <<>> THEN ""
          ELSE " ORDER BY " \o Join([k \in DOMAIN order |->
                   order[k].column \o (IF order[k].direction = "asc" THEN " ASC" ELSE " DESC")],
                   ", "))
      \o (IF limit.some THEN " LIMIT " \o ToString(limit.v) ELSE "")

OnlyKinds(p, kinds) == \A k \in DOMAIN p : p[k].node_type \in kinds

(* C4: after any number of interpreted nodes the table name, column list,  *)
(* order list and limit are the payload of the last interpreted node of    *)
(* the kind (last write wins, an empty or absent payload included; nodes   *)
(* of other kinds leave the field alone), and a chain of only these kinds  *)
(* renders from those last payloads: * for an empty column list, no ORDER  *)
(* BY for an empty order list, no LIMIT for a missing limit.               *)
C4_LastWriteWins ==
    Resolved =>
        /\ locals.table_name = LastTableName(path, idx - 1)
        /\ locals.columns = LastColumns(path, idx - 1)
        /\ locals.order_by_list = LastOrder(path, idx - 1)
        /\ locals.limit_value = LastLimit(path, idx - 1)
        /\ (/\ Done /\ LoopCompleted /\ result.v.ok /\ ~pagination.some
            /\ OnlyKinds(path, {"table", "select", "sort", "limit"}))
           => result.v.v = PlainSql(LastTableName(path, Len(path)), LastColumns(path, Len(path)),
                                    LastOrder(path, Len(path)), LastLimit(path, Len(path)))

C4_Witness ==
    /\ Done /\ LoopCompleted
    /\ Len(path) = 3
    /\ path[2] = Node("2", "limit", LimitData(JNum(10)))
    /\ path[3] = Node("3", "limit", LimitData(JNull))
    /\ result = Some(Ok("SELECT * FROM users"))

Permute(p, q) == [k \in DOMAIN p |-> p[q[k]]]

OneOfEach(p) ==
    /\ Len(p) = 4
    /\ \A ty \in {"table", "select", "sort", "limit"} :
          Cardinality({k \in DOMAIN p : p[k].node_type = ty}) = 1

SameOutcome(r1, r2) == r1.ok = r2.ok /\ (r1.ok => r1.v = r2.v)

(* C5: a chain with exactly one table, one select, one sort and one limit  *)
(* node and nothing else compiles to the same SQL in every order of the    *)
(* four nodes.                                                             *)
C5_OrderIndependent ==
    (Done /\ Resolved /\ OneOfEach(path)) =>
        \A q \in Permutations4 :
            SameOutcome(GenerateFromPath(Permute(path, q), pagination), result.v)

C5_Witness ==
    /\ Done /\ OneOfEach(path)
    /\ path[1].node_type = "limit"
    /\ path[4].node_type = "table"
    /\ result = Some(Ok("SELECT id, name FROM users ORDER BY name ASC LIMIT 10"))

IsSelectWithColumns(n) ==
    /\ n.node_type = "select"
    /\ SelectNodeData(n.data).ok
    /\ Len(SelectNodeData(n.data).v.columns) > 0

(* the node has a supported kind and its payload parses *)
ParsesAlone(n) ==
    /\ n.node_type \in NodeKinds
    /\ MatchNode(InitLocals, n).ok

(* C6, as claimed: a Select node with a non-empty column list before an    *)
(* Aggregation node in path order always makes compilation fail with       *)
(* AggregationAfterSelect and its exact text, whatever the other nodes.    *)
C6_AggregationAfterSelectAlways ==
    (Done /\ Resolved /\
     \E a, b \in DOMAIN path :
        a < b /\ IsSelectWithColumns(path[a]) /\ path[b].node_type = "aggregation")
    => result = Some(Err(AggregationAfterSelectMessage))

(* C6, amended: a Select node with a non-empty column list before an       *)
(* Aggregation node, with no Aggregation node before that Select node and  *)
(* every node up to that Aggregation node of a supported kind with a       *)
(* payload that parses, makes compilation fail with AggregationAfterSelect *)
(* and its exact text, whatever those other nodes are.                     *)
C6_AggregationAfterSelect ==
    (Done /\ Resolved /\
     \E a, b \in DOMAIN path :
        /\ a < b /\ IsSelectWithColumns(path[a]) /\ path[b].node_type = "aggregation"
        /\ \A k \in 1..(a - 1) : path[k].node_type # "aggregation"
        /\ \A k \in 1..b : ParsesAlone(path[k]))
    => result = Some(Err("Cannot use Aggregation after Select node. Please remove the Select node or reorder the nodes."))

C6_Witness ==
    /\ Done /\ Resolved
    /\ Len(path) = 3
    /\ IsSelectWithColumns(path[1])
    /\ path[2].node_type = "filter"
    /\ path[3].node_type = "aggregation"
    /\ idx = 3
    /\ result = Some(Err(AggregationAfterSelectMessage))

RemoveAt(p, j) == [k \in 1..(Len(p) - 1) |-> IF k < j THEN p[k] ELSE p[k + 1]]

IsAggregationWithContent(n) ==
    /\ n.node_type = "aggregation"
    /\ AggregationNodeData(n.data).ok
    /\ \/ Len(AggregationNodeData(n.data).v.dimensions) > 0
       \/ Len(AggregationNodeData(n.data).v.metrics) > 0

(* C7: a Select node after an Aggregation node with dimensions or metrics  *)
(* neither fails the compilation nor changes the projection: the result is *)
(* that of the same chain without the Select node.                         *)
C7_SelectAfterAggregationIgnored ==
    (Done /\ Resolved) =>
        \A a, b \in DOMAIN path :
            (/\ a < b /\ IsAggregationWithContent(path[a])
             /\ path[b].node_type = "select" /\ SelectNodeData(path[b].data).ok)
            => result.v = GenerateFromPath(RemoveAt(path, b), pagination)

C7_Witness ==
    /\ Done /\ LoopCompleted
    /\ Len(path) = 3
    /\ path[1].node_type = "table"
    /\ IsAggregationWithContent(path[2])
    /\ IsSelectWithColumns(path[3])
    /\ result = Some(Ok("SELECT category, COUNT(*) FROM users GROUP BY category"))

NoValidFiltersMessage == "No valid filter conditions (all have empty values)"
InvalidInValueMessage == "Expected array for 'in' operator"

(* C8: empty-valued conditions are left out of the predicate, and when the *)
(* chain's filters carry conditions that are all empty-valued, generate_sql *)
(* fails with NoValidFilters.                                              *)
C8_NoValidFiltersFails ==
    (/\ Done /\ LoopCompleted
     /\ Len(locals.filter_conditions) > 0
     /\ \A k \in DOMAIN locals.filter_conditions :
           is_empty_value(locals.filter_conditions[k].value))
    => result = Some(Err(NoValidFiltersMessage))

(* a retained "in" condition whose value is not an array *)
IsInWithScalar(c) ==
    c.operator = "in" /\ c.value.t # "array" /\ ~is_empty_value(c.value)

(* C9: a retained condition with operator "in" and a value that is not an  *)
(* array makes generate_sql return an error (InvalidInValue when no other   *)
(* condition fails first) and no SQL.                                      *)
C9_InvalidInValueFails ==
    (/\ Done /\ LoopCompleted
     /\ locals.table_name # ""
     /\ \E k \in DOMAIN locals.filter_conditions :
           IsInWithScalar(locals.filter_conditions[k]))
    => /\ ~result.v.ok
       /\ build_where_expr(locals.filter_conditions) = Err(InvalidInValueMessage)
             => result.v = Err(InvalidInValueMessage)

(* C10: an error raised while compiling is the Err result of generate_sql: *)
(* when the predicate cannot be built from the retained conditions, no Ok  *)
(* with SQL text (a statement without its WHERE clause) is returned.       *)
C10_NoErrorSwallowed ==
    (/\ Done /\ LoopCompleted
     /\ Len(locals.filter_conditions) > 0
     /\ ~build_where_expr(locals.filter_conditions).ok
     /\ build_where_expr(locals.filter_conditions).err # NoValidFiltersMessage)
    => ~result.v.ok

(* the conditions of the filter nodes of a path, in path order then list order *)
RECURSIVE PathConditions(_, _)
PathConditions(p, n) ==
    IF n = 0 THEN <<>>
    ELSE PathConditions(p, n - 1) \o
            (IF p[n].node_type = "filter" THEN FilterNodeData(p[n].data).v.conditions
             ELSE <<>>)

Retained(conditions) == SelectSeq(conditions, LAMBDA c : ~is_empty_value(c.value))

ConditionTexts(conditions) ==
    [k \in DOMAIN conditions |-> ExprToString(condition_to_expr(conditions[k]).v)]

(* C11: the WHERE predicate is the conjunction of all retained conditions  *)
(* of all filter nodes of the chain, in path order then list order, joined *)
(* with AND; no retained condition is missing, duplicated or reordered.    *)
C11_WhereIsAllRetainedInOrder ==
    (/\ Done /\ LoopCompleted /\ result.v.ok
     /\ pagination = None
     /\ OnlyKinds(path, {"table", "filter"}))
    => LET retained == Retained(PathConditions(path, Len(path)))
       IN  /\ \A k \in DOMAIN retained : condition_to_expr(retained[k]).ok
           /\ result.v.v =
                 "SELECT * FROM " \o LastTableName(path, Len(path)) \o
                 (IF Len(retained) = 0 THEN ""
                  ELSE " WHERE " \o Join(ConditionTexts(retained), " AND "))

(* the SQL text of a literal value and of a condition's own operator *)
LiteralText(value) ==
    CASE value.t = "string" -> "'" \o value.s \o "'"
      [] value.t = "number" -> ToString(value.n)
      [] value.t = "bool" -> IF value.b THEN "true" ELSE "false"

OperatorText(operator) ==
    CASE operator = "==" -> "="
      [] operator = "!=" -> "<>"
      [] operator = "in" -> "IN"
      [] OTHER -> operator

(* the atomic condition with its original operator, negate left aside *)
AtomText(c) ==
    c.column \o " " \o OperatorText(c.operator) \o " " \o
    (IF c.operator = "in"
     THEN "(" \o Join([k \in DOMAIN c.value.a |-> LiteralText(c.value.a[k])], ", ") \o ")"
     ELSE LiteralText(c.value))

NegateText(c) == (IF c.negate THEN "NOT " ELSE "") \o AtomText(c)

(* C12: a condition with negate = true is emitted as NOT applied to the    *)
(* condition translated with its original operator (the operator is never  *)
(* flipped, an IN list never becomes NOT IN), and with negate = false no    *)
(* NOT is emitted.                                                          *)
C12_NegateWrapsInNot ==
    (/\ Done /\ LoopCompleted /\ result.v.ok
     /\ pagination = None
     /\ OnlyKinds(path, {"table", "filter"})
     /\ build_where_expr(PathConditions(path, Len(path))).ok)
    => LET retained == Retained(PathConditions(path, Len(path)))
       IN  result.v.v =
              "SELECT * FROM " \o LastTableName(path, Len(path)) \o " WHERE " \o
              Join([k \in DOMAIN retained |-> NegateText(retained[k])], " AND ")

C12_Witness ==
    /\ Done /\ Len(path) = 2
    /\ path[2].node_type = "filter"
    /\ PathConditions(path, 2) =
          <<[column |-> "city", operator |-> "==", value |-> JStr("Tokyo"), negate |-> TRUE]>>
    /\ result = Some(Ok("SELECT * FROM users WHERE NOT city = 'Tokyo'"))

FirstOfKind(p, ty) == FirstIndex({k \in DOMAIN p : p[k].node_type = ty})

(* the aggregation block the chain carries, when its first and its last    *)
(* Aggregation node carry the same block                                    *)
HasOneAggregationBlock(p) ==
    /\ FirstOfKind(p, "aggregation") # 0
    /\ p[FirstOfKind(p, "aggregation")].data = p[LastOfKind(p, "aggregation", Len(p))].data

AggregationBlock(p) == AggregationNodeData(p[FirstOfKind(p, "aggregation")].data).v

MetricText(m) ==
    IF m.function = "COUNT(*)" THEN "COUNT(*)" ELSE m.function \o "(" \o m.column \o ")"

(* C13: with an Aggregation node that has dimensions or metrics on the     *)
(* chain, the projection is the dimension columns in declaration order     *)
(* followed by the metric expressions in declaration order (the count of   *)
(* all rows with a star argument, otherwise FUNC(column)), GROUP BY lists   *)
(* the dimensions verbatim, and there is no GROUP BY when there are no      *)
(* dimensions, metrics or not.                                              *)
C13_AggregationProjectionAndGroupBy ==
    (/\ Done /\ LoopCompleted /\ result.v.ok
     /\ pagination = None
     /\ HasOneAggregationBlock(path)
     /\ LET agg == AggregationBlock(path)
        IN  Len(agg.dimensions) > 0 \/ Len(agg.metrics) > 0)
    => LET agg == AggregationBlock(path)
       IN  result.v.v =
             "SELECT " \o
             Join(agg.dimensions \o [k \in DOMAIN agg.metrics |-> MetricText(agg.metrics[k])],
                  ", ") \o
             " FROM " \o locals.table_name \o
             (IF Selection(locals).some
              THEN " WHERE " \o ExprToString(Selection(locals).v) ELSE "") \o
             (IF Len(agg.dimensions) = 0 THEN ""
              ELSE " GROUP BY " \o Join(agg.dimensions, ", ")) \o
             (IF Len(locals.order_by_list) = 0 THEN ""
              ELSE " ORDER BY " \o
                   Join([k \in DOMAIN locals.order_by_list |->
                            locals.order_by_list[k].column \o
                            (IF locals.order_by_list[k].direction = "asc"
                             THEN " ASC" ELSE " DESC")], ", ")) \o
             (IF locals.limit_value.some
              THEN " LIMIT " \o ToString(locals.limit_value.v) ELSE "")

C13_Witness ==
    /\ Done /\ Len(path) = 2
    /\ HasOneAggregationBlock(path)
    /\ result.v.ok
    /\ AggregationBlock(path).dimensions = <<"region", "category">>
    /\ Len(AggregationBlock(path).metrics) = 2
    /\ result = Some(Ok("SELECT region, category, COUNT(*), SUM(price) FROM products GROUP BY region, category"))

(* the optional clauses of a statement over the interpreted fields, in the *)
(* order WHERE, GROUP BY, ORDER BY, LIMIT, each only for a non-empty field *)
WhereClause(l) ==
    IF Len(l.filter_conditions) = 0 THEN ""
    ELSE " WHERE " \o
         (IF Selection(l).some THEN ExprToString(Selection(l).v) ELSE "")

GroupByClause(l) ==
    IF l.aggregation_data.some /\ Len(l.aggregation_data.v.dimensions) > 0
    THEN " GROUP BY " \o Join(l.aggregation_data.v.dimensions, ", ")
    ELSE ""

OrderByClause(l) ==
    IF Len(l.order_by_list) = 0 THEN ""
    ELSE " ORDER BY " \o
         Join([k \in DOMAIN l.order_by_list |->
                  l.order_by_list[k].column \o
                  (IF l.order_by_list[k].direction = "asc" THEN " ASC" ELSE " DESC")], ", ")

LimitClauseText(l) ==
    IF l.limit_value.some THEN " LIMIT " \o ToString(l.limit_value.v) ELSE ""

(* C14: a successful render is one SELECT statement with the clauses in    *)
(* the order SELECT projection, FROM table, WHERE, GROUP BY, ORDER BY,      *)
(* LIMIT, each optional clause present exactly when its field of the        *)
(* interpreted query is non-empty, whatever the order of the nodes; the     *)
(* projection is * without explicit columns and without aggregation.        *)
C14_ClausesInFixedOrder ==
    (/\ Done /\ LoopCompleted /\ result.v.ok
     /\ pagination = None)
    => /\ (Len(locals.columns) = 0 /\ ~locals.aggregation_data.some)
             => Projection(locals) = <<"*">>
       /\ Len(locals.filter_conditions) > 0 => Selection(locals).some
       /\ result.v.v =
             "SELECT " \o Join(Projection(locals), ", ") \o
             " FROM " \o locals.table_name \o
             WhereClause(locals) \o GroupByClause(locals) \o
             OrderByClause(locals) \o LimitClauseText(locals)

(* C15: with pagination (L, O) the result is exactly                        *)
(* SELECT * FROM (<inner>) AS subquery LIMIT L OFFSET O, where <inner> is   *)
(* the text the same chain compiles to without pagination, with or without  *)
(* a LIMIT of its own, which stays unchanged inside the subquery.           *)
C15_PaginationWrapsInner ==
    (/\ Done /\ Resolved /\ pagination.some
     /\ GenerateFromPath(path, None).ok)
    => result =
         Some(Ok("SELECT * FROM (" \o GenerateFromPath(path, None).v \o
                 ") AS subquery LIMIT " \o ToString(pagination.v[1]) \o
                 " OFFSET " \o ToString(pagination.v[2])))

C15_Witness ==
    /\ Done /\ pagination = Some(<<100, 0>>)
    /\ \E k \in DOMAIN path : path[k].node_type = "limit"
    /\ GenerateFromPath(path, None) = Ok("SELECT * FROM users LIMIT 10")
    /\ result =
         Some(Ok("SELECT * FROM (SELECT * FROM users LIMIT 10) AS subquery LIMIT 100 OFFSET 0"))

(* C16: the row-count statement is exactly                                  *)
(* SELECT COUNT, star argument, FROM (<inner>) AS subquery, <inner> being   *)
(* the chain's SQL compiled without pagination (its own LIMIT included),    *)
(* and when compiling fails no counting statement is built or executed.     *)
C16_RowCountWrapsUnpaginated ==
    command = "get_query_row_count"
    => /\ pagination = None
       /\ pc = "query_row" =>
             /\ GenerateFromPath(path, None).ok
             /\ count_sql =
                   Some("SELECT COUNT(*) FROM (" \o GenerateFromPath(path, None).v
                            \o ") AS subquery")
       /\ (pc \in {"done", "returned"} /\ ~result.v.ok) => count_sql = None
       /\ pc \notin {"query_row"} => count_sql = None

C16_Witness ==
    /\ command = "get_query_row_count"
    /\ pc = "query_row"
    /\ \E k \in DOMAIN path : path[k].node_type = "limit"
    /\ count_sql = Some("SELECT COUNT(*) FROM (SELECT * FROM users LIMIT 10) AS subquery")

MissingTableMessage == "No table node found in path"

NoTableNode(p) == \A k \in DOMAIN p : p[k].node_type # "table"

(* C17 as stated: a chain without a Table node fails with MissingTable,     *)
(* whatever other nodes it contains.                                        *)
C17_MissingTableAlways ==
    (Done /\ Resolved /\ NoTableNode(path))
    => result = Some(Err(MissingTableMessage))

(* C17: a chain without a Table node returns an error and no SQL; the error *)
(* is MissingTable when every node of the chain is interpreted without an   *)
(* error of its own, and otherwise the error of the first failing node.     *)
C17_MissingTable ==
    (Done /\ Resolved /\ NoTableNode(path))
    => /\ ~result.v.ok
       /\ Interpret(path).ok => result = Some(Err(MissingTableMessage))
       /\ ~Interpret(path).ok => result.v.err # MissingTableMessage

C17_Witness ==
    /\ Done /\ Len(path) = 3 /\ NoTableNode(path)
    /\ path[1].node_type = "filter" /\ path[3].node_type = "aggregation"
    /\ result = Some(Err(MissingTableMessage))

UnsupportedMessage(kind) == "Unsupported node type: " \o kind

UnsupportedOnPath(p) == {k \in DOMAIN p : p[k].node_type \notin NodeKinds}

(* C18 as stated: a node of unknown kind on the chain makes generate_sql    *)
(* fail with UnsupportedNodeKind naming that kind.                          *)
C18_UnsupportedKindAlways ==
    (Done /\ Resolved /\ UnsupportedOnPath(path) # {})
    => \A k \in UnsupportedOnPath(path) :
          result = Some(Err(UnsupportedMessage(path[k].node_type)))

(* C18: a node of unknown kind on the chain makes generate_sql return an    *)
(* error and no SQL: UnsupportedNodeKind naming the kind of the first such  *)
(* node when the nodes before it are interpreted without error, otherwise   *)
(* the error of the first failing node.  A node of unknown kind off the     *)
(* chain causes no UnsupportedNodeKind failure.                             *)
C18_UnsupportedKind ==
    (Done /\ Resolved)
    => IF UnsupportedOnPath(path) # {}
       THEN LET k == FirstIndex(UnsupportedOnPath(path))
            IN  /\ ~result.v.ok
                /\ Interpret(SubSeq(path, 1, k - 1)).ok
                      => result = Some(Err(UnsupportedMessage(path[k].node_type)))
       ELSE \A j \in DOMAIN node_graph.nodes :
               result # Some(Err(UnsupportedMessage(node_graph.nodes[j].node_type)))

C18_Witness ==
    /\ Done /\ Len(path) = 2
    /\ path[1].node_type = "table" /\ path[2].node_type = "join"
    /\ \E j \in DOMAIN node_graph.nodes : node_graph.nodes[j] = StrayNode
    /\ result = Some(Err("Unsupported node type: join"))

(* the result of one call run on its own *)
GenerateAlone(input) ==
    IF build_path(input.graph).ok
    THEN GenerateFromPath(build_path(input.graph).v, input.pagination)
    ELSE build_path(input.graph)

(* C19: generate_sql is a pure, deterministic function of (graph,           *)
(* pagination): a call's result is the result of that call run alone,       *)
(* whatever calls the caller made before and however the calls of other     *)
(* callers are interleaved with it; calls with equal inputs return equal    *)
(* results; the graph passed in is not modified.                            *)
C19_PureAndIndependent ==
    \A t \in Callers :
       /\ callers[t].pc # "idle" =>
             /\ callers[t].node_graph = callers[t].input.v.graph
             /\ callers[t].pagination = callers[t].input.v.pagination
       /\ callers[t].pc = "done" =>
             /\ callers[t].result = Some(GenerateAlone(callers[t].input.v))
             /\ \A u \in Callers :
                   (callers[u].pc = "done" /\ callers[u].input = callers[t].input)
                      => callers[u].result = callers[t].result

C19_Witness ==
    /\ callers["a"].pc = "done" /\ callers["a"].calls_made = 2
    /\ callers["a"].result = Some(Ok("SELECT * FROM users"))
    /\ callers["b"].pc = "interpret" /\ callers["b"].idx = 2
    /\ Len(callers["b"].path) = 2
    /\ Len(callers["b"].locals.filter_conditions) = 0
    /\ callers["b"].path[2].node_type = "filter"

(* the keys of the last sort node of a path, as its payload declares them *)
DeclaredKeys(p) ==
    IF LastOfKind(p, "sort", Len(p)) = 0 \/ ~Has(p[LastOfKind(p, "sort", Len(p))].data, "order")
    THEN <<>>
    ELSE p[LastOfKind(p, "sort", Len(p))].data.o.order.a

KeyText(key) ==
    key.o.column.s \o " " \o (IF key.o.direction.s = "asc" THEN "ASC" ELSE "DESC")

(* C20: each sort key renders as its column followed by ASC or DESC        *)
(* according to its direction, the keys appear in ORDER BY in the sort      *)
(* node's declaration order separated by a comma and a space, and the       *)
(* direction keyword is always written.                                     *)
C20_SortKeysRenderInOrder ==
    (/\ Done /\ LoopCompleted /\ result.v.ok
     /\ pagination = None
     /\ OnlyKinds(path, {"table", "sort"}))
    => result.v.v =
          "SELECT * FROM " \o LastTableName(path, Len(path)) \o
          (IF Len(DeclaredKeys(path)) = 0 THEN ""
           ELSE " ORDER BY " \o
                Join([k \in DOMAIN DeclaredKeys(path) |-> KeyText(DeclaredKeys(path)[k])],
                     ", "))

C20_Witness ==
    /\ Done /\ Len(path) = 2
    /\ Len(DeclaredKeys(path)) = 2
    /\ result = Some(Ok("SELECT * FROM users ORDER BY id DESC, name ASC"))


(* a sort payload all of whose keys name a column, one of them at least    *)
(* without a direction                                                     *)
HasKeyWithoutDirection(d) ==
    /\ Has(d, "order") /\ d.o.order.t = "array"
    /\ \A k \in DOMAIN d.o.order.a :
          /\ Has(d.o.order.a[k], "column") /\ d.o.order.a[k].o.column.t = "string"
          /\ Has(d.o.order.a[k], "direction") => IsOrderByData(d.o.order.a[k])
    /\ \E k \in DOMAIN d.o.order.a : ~Has(d.o.order.a[k], "direction")

KeyTextDefaultAsc(key) ==
    key.o.column.s \o " " \o
    (IF Has(key, "direction") /\ key.o.direction.s = "desc" THEN "DESC" ELSE "ASC")

(* C21: a sort key whose payload has no direction compiles and renders     *)
(* with direction ASC.                                                     *)
C21_MissingDirectionDefaultsAsc ==
    (/\ Done /\ Resolved /\ pagination = None
     /\ Len(path) = 2
     /\ path[1].node_type = "table" /\ TableNodeData(path[1].data).ok
     /\ TableNodeData(path[1].data).v.table_name \notin {"", "("}
     /\ path[2].node_type = "sort" /\ HasKeyWithoutDirection(path[2].data))
    => result =
         Some(Ok("SELECT * FROM " \o TableNodeData(path[1].data).v.table_name \o
                 " ORDER BY " \o
                 Join([k \in DOMAIN path[2].data.o.order.a |->
                          KeyTextDefaultAsc(path[2].data.o.order.a[k])], ", ")))


(* a Select node whose column list is empty or absent *)
IsSelectWithoutColumns(n) ==
    /\ n.node_type = "select"
    /\ SelectNodeData(n.data).ok
    /\ Len(SelectNodeData(n.data).v.columns) = 0

(* C22: AggregationAfterSelect is raised only for a Select node with a     *)
(* non-empty column list: when every Select node of the chain has an empty *)
(* or absent column list and one of them precedes an Aggregation node, the *)
(* chain compiles as it does without its Select nodes.                     *)
C22_EmptySelectBeforeAggregation ==
    (/\ Done /\ Resolved
     /\ \A k \in DOMAIN path :
           path[k].node_type = "select" => IsSelectWithoutColumns(path[k])
     /\ \E j, k \in DOMAIN path :
           j < k /\ path[j].node_type = "select" /\ path[k].node_type = "aggregation")
    => /\ result # Some(Err(AggregationAfterSelectMessage))
       /\ result =
            Some(GenerateFromPath(SelectSeq(path, LAMBDA n : n.node_type # "select"),
                                  pagination))


(* C23: the aggregation block is assigned at most once while a chain is    *)
(* interpreted: once set, it is the block of the first Aggregation node of *)
(* the chain, and a later Aggregation node never replaces it.              *)
C23_AggregationSetOnce ==
    (Resolved /\ locals.aggregation_data.some)
    => locals.aggregation_data.v = AggregationBlock(path)


UnsupportedValueTypes == {"null", "object"}

(* a retained condition whose value has a type no literal is built from *)
HasUnsupportedValue(c) ==
    /\ ~is_empty_value(c.value)
    /\ \/ c.value.t \in UnsupportedValueTypes
       \/ c.operator # "in" /\ c.value.t = "array"
       \/ /\ c.operator = "in" /\ c.value.t = "array"
          /\ \E k \in DOMAIN c.value.a :
                c.value.a[k].t \in UnsupportedValueTypes \cup {"array"}

(* C24: a retained condition whose value has an unsupported type (null or  *)
(* object, an array for a comparison, a null, object or array element of   *)
(* an "in" list) makes generate_sql return an error: no statement is       *)
(* emitted without that condition or with the rest of its list.            *)
C24_UnsupportedValueFails ==
    (/\ Done /\ LoopCompleted
     /\ \E k \in DOMAIN locals.filter_conditions :
           HasUnsupportedValue(locals.filter_conditions[k]))
    => ~result.v.ok


(* emptiness as the values' shapes show it, for values nested at most      *)
(* three deep: the empty string, the empty array, an array of such values  *)
EmptyLeaf(v) == (v.t = "string" /\ v.s = "") \/ (v.t = "array" /\ Len(v.a) = 0)

EmptyArrayOfLeaves(v) == v.t = "array" /\ \A k \in DOMAIN v.a : EmptyLeaf(v.a[k])

EmptyByShape(v) ==
    \/ EmptyLeaf(v)
    \/ v.t = "array" /\ \A k \in DOMAIN v.a : EmptyLeaf(v.a[k]) \/ EmptyArrayOfLeaves(v.a[k])

(* C25: a condition is dropped only when its value is the empty string,    *)
(* an empty array, or an array whose elements are all (recursively) empty; *)
(* numbers, booleans and null are never empty; an "in" array with a        *)
(* non-empty element is kept whole, its empty strings rendered as ''.      *)
C25_OnlyEmptyValuesDropped ==
    (/\ Done /\ LoopCompleted /\ result.v.ok
     /\ pagination = None
     /\ OnlyKinds(path, {"table", "filter"}))
    => LET conditions == PathConditions(path, Len(path))
           kept == SelectSeq(conditions, LAMBDA c : ~EmptyByShape(c.value))
       IN  /\ \A k \in DOMAIN conditions :
                 is_empty_value(conditions[k].value) <=> EmptyByShape(conditions[k].value)
           /\ (Len(kept) > 0 /\ \A k \in DOMAIN kept : condition_to_expr(kept[k]).ok)
                 => result.v.v =
                       "SELECT * FROM " \o LastTableName(path, Len(path)) \o " WHERE " \o
                       Join([k \in DOMAIN kept |-> NegateText(kept[k])], " AND ")

C25_Witness ==
    /\ Done /\ Len(path) = 2
    /\ path[2].node_type = "filter"
    /\ Len(locals.filter_conditions) = 2
    /\ locals.filter_conditions[1].value = JStrings(<<"", "Taro">>)
    /\ is_empty_value(locals.filter_conditions[2].value)
    /\ result = Some(Ok("SELECT * FROM users WHERE city IN ('', 'Taro')"))


(* C26: MissingTable is decided after the whole chain has been interpreted *)
(* and from the final table name only: it is the result exactly when the   *)
(* loop over the chain completed and the chain has no Table node or its    *)
(* last Table node has an empty table_name; the Table node need not be the *)
(* root; an error of a node of the chain comes before MissingTable.        *)
C26_MissingTableFromFinalName ==
    (Done /\ Resolved)
    => /\ result = Some(Err(MissingTableMessage))
            <=> (LoopCompleted
                    /\ (NoTableNode(path) \/ LastTableName(path, Len(path)) = ""))
       /\ ~LoopCompleted => result.v = Interpret(path)
       /\ (LoopCompleted /\ LastTableName(path, Len(path)) \notin {""} \cup UnparsableTableNames)
             => result.v.ok

C26_Witness ==
    /\ Done /\ Len(path) = 3
    /\ path[1].node_type = "select" /\ path[2].node_type = "table"
    /\ path[3].node_type = "table"
    /\ TableNodeData(path[2].data) = Ok([table_name |-> "users"])
    /\ TableNodeData(path[3].data) = Ok([table_name |-> ""])
    /\ result = Some(Err(MissingTableMessage))


(* C27: with an Aggregation node whose dimensions and metrics are both     *)
(* empty on the chain, the projection is the star, there is no GROUP BY,   *)
(* and the columns of the chain's Select nodes are not projected.          *)
C27_EmptyAggregationProjectsStar ==
    (/\ Done /\ LoopCompleted /\ result.v.ok
     /\ pagination = None
     /\ HasOneAggregationBlock(path)
     /\ Len(AggregationBlock(path).dimensions) = 0
     /\ Len(AggregationBlock(path).metrics) = 0)
    => result.v.v =
          "SELECT * FROM " \o locals.table_name \o
          (IF Selection(locals).some
           THEN " WHERE " \o ExprToString(Selection(locals).v) ELSE "") \o
          OrderByClause(locals) \o LimitClauseText(locals)

C27_Witness ==
    /\ Done /\ Len(path) = 3
    /\ path[2].node_type = "aggregation"
    /\ IsSelectWithColumns(path[3])
    /\ locals.columns = <<"id", "name">>
    /\ result = Some(Ok("SELECT * FROM users"))


(* C28: in run_query limit = page_size and offset = (page - 1) * page_size *)
(* with defaults page = 1 and page_size = 100; for page >= 1 and           *)
(* page_size >= 0 the offset is non-negative and is the exact product (no  *)
(* overflow, no wrap-around), so that the next page starts where this one  *)
(* ends.                                                                   *)
C28_PageWindowExact ==
    (command = "run_query" /\ pc # "run_query")
    => LET page == unwrap_or(page_args.page, 1)
           page_size == unwrap_or(page_args.page_size, 100)
       IN  /\ pc # "panicked"
           /\ pagination.some
           /\ pagination.v[1] = page_size
           /\ pagination.v[2] >= 0
           /\ page_size = 0 => pagination.v[2] = 0
           /\ page_size > 0 =>
                 /\ pagination.v[2] % page_size = 0
                 /\ pagination.v[2] \div page_size = page - 1


(* Property-side: the script a call writes from its own arguments, and the *)
(* value that script produces                                              *)
OwnScript(call) ==
    TempJs([call EXCEPT !.connector_path =
               Some(resolve_connector_path(connector.current_dir, call.ty).v)])

OwnReturn(call) ==
    IF call.command = "sync" THEN Ok("Sync completed successfully")
    ELSE Ok(ResultJson(OwnScript(call)))

(* C29: a call of config, discovery or sync that has written its script    *)
(* loads exactly the script it wrote, and when it returns it returns the   *)
(* result of that script, whatever the other call does meanwhile           *)
C29_ConnectorCallsIsolated ==
    \A t \in Callers :
       LET call == connector.calls[t]
       IN  (call.command \in ConnectorCommands /\ call.wrote)
           => /\ call.module.some => call.module.v = OwnScript(call)
              /\ call.returned.some => call.returned.v = OwnReturn(call)


(* Property-side: the file name of the connector of a known type *)
ConnectorFileOf(ty) ==
    IF ty = "LocalFileCSV" THEN "LocalFileCSVConnector.js"
    ELSE "LocalFileJSONConnector.js"

KnownConnectorType(ty) == ty \in {"LocalFileCSV", "LocalFileJSON"}

(* a finished call of an unknown type returned 'Unknown connector type'    *)
(* and neither wrote a temporary file nor started a script runtime         *)
RejectedUnknownType(call) ==
    /\ call.returned.v = Err("Unknown connector type")
    /\ ~call.wrote
    /\ ~call.runtime
    /\ ~call.module.some

(* a finished resolve_connector_path of a known type returned a path whose *)
(* last component is the file of the connector of that type                *)
ResolvedKnownType(call) ==
    /\ call.returned.v.ok
    /\ Len(call.returned.v.v) > 0
    /\ call.returned.v.v[Len(call.returned.v.v)] = ConnectorFileOf(call.ty)

(* C30, as stated: every finished call of resolve_connector_path, config,  *)
(* discovery or sync with a type other than LocalFileCSV and LocalFileJSON *)
(* returned 'Unknown connector type' without writing a temporary file or   *)
(* starting a runtime, and every finished resolve_connector_path of a      *)
(* known type succeeded with a path ending in the connector file name      *)
C30_UnknownTypeAlways ==
    \A t \in Callers :
       LET call == connector.calls[t]
       IN  (command = "connector" /\ call.pc = "done")
           => /\ ~KnownConnectorType(call.ty) => RejectedUnknownType(call)
              /\ (KnownConnectorType(call.ty)
                     /\ call.command = "resolve_connector_path")
                 => ResolvedKnownType(call)

(* C30, amended: the commands config, discovery and sync reject an unknown *)
(* type with 'Unknown connector type' before writing a temporary file or   *)
(* starting a runtime; resolve_connector_path does the same, and succeeds  *)
(* for a known type with a path ending in the connector file name, when    *)
(* the current directory of the process can be determined; when it cannot, *)
(* resolve_connector_path returns the error of current_dir for every type  *)
C30_UnknownType ==
    \A t \in Callers :
       LET call == connector.calls[t]
       IN  (command = "connector" /\ call.pc = "done")
           => IF call.command = "resolve_connector_path"
              THEN IF ~connector.current_dir.some
                   THEN call.returned.v = Err(NotFoundText)
                   ELSE IF KnownConnectorType(call.ty)
                   THEN ResolvedKnownType(call)
                   ELSE RejectedUnknownType(call)
              ELSE ~KnownConnectorType(call.ty) => RejectedUnknownType(call)

(* a command rejected an unknown type while the other caller's             *)
(* resolve_connector_path of an unknown type returned the same error, and  *)
(* nothing was written                                                     *)
C30_Witness ==
    /\ command = "connector"
    /\ connector.current_dir.some
    /\ connector.calls["a"].command = "discovery"
    /\ connector.calls["a"].ty = "UnknownType"
    /\ connector.calls["a"].pc = "done"
    /\ connector.calls["a"].returned.v = Err("Unknown connector type")
    /\ connector.calls["b"].command = "resolve_connector_path"
    /\ connector.calls["b"].ty = "UnknownType"
    /\ connector.calls["b"].pc = "done"
    /\ connector.calls["b"].returned.v = Err("Unknown connector type")
    /\ \A f \in TempFiles : ~connector.files[f].some

====
